---- MODULE Spec2Model ----
(***************************************************************************)
(* Event-sourced shipment aggregate of the delivery microservice: the      *)
(* status state machine, the aggregate and its event factories, the event  *)
(* store, the projection store, the aggregate repository and the use cases *)
(* that load, mutate and save an aggregate.                                *)
(*                                                                         *)
(* Abstractions.  Customer snapshots, line items, actors and descriptions  *)
(* are opaque tokens (strings); "absent" (undefined in the source) is the  *)
(* token None.  A non-empty string is truthy, None is falsy.  Date.now()   *)
(* is the logical clock `clock`, read when an event is constructed and     *)
(* advanced by every completed insert into the event store.  Documents    *)
(* with equal timestamps are returned by the store in insertion order.     *)
(* createdAt / updatedAt of the aggregate are not modelled.                *)
(***************************************************************************)
EXTENDS Integers, Sequences, FiniteSets, TLC

\* ------------------------------------------------------------------ bounds
\* MaxWork bounds a run of the service: the use-case executions started plus
\* the faults injected (a store or publish call that throws, a crash).
MaxWork == 2
MaxAggOps == 6
\* MaxDeliveries bounds the deliveries of one message to the consumer.
MaxDeliveries == 5
\* MaxSaves bounds the calls of save a caller makes on one aggregate.
MaxSaves == 3

\* ------------------------------------------------------------ value tokens
None == "none"

Statuses ==
  {"PENDING", "PREPARED", "IN_TRANSIT", "DELIVERED",
   "CANCELLED", "RETURNING", "RETURNED", "EXCHANGE_PROCESSED"}

ShipmentTypes == {"NORMAL", "EXCHANGE"}

Truthy(v) == v # None

\* ------------------------------------------------ ShipmentStatus (pure)
\* (a variant of the table in which IN_TRANSIT allows no target)
transitionsInTransitIsFinal ==
  [s \in Statuses |->
     CASE s = "PENDING"    -> {"PREPARED", "CANCELLED"}
       [] s = "PREPARED"   -> {"IN_TRANSIT", "CANCELLED"}
       [] s = "DELIVERED"  -> {"RETURNING"}
       [] s = "RETURNING"  -> {"RETURNED", "EXCHANGE_PROCESSED"}
       [] OTHER            -> {}]

\* the table of canTransitionTo
transitions ==
  [s \in Statuses |->
     CASE s = "PENDING"    -> {"PREPARED", "CANCELLED"}
       [] s = "PREPARED"   -> {"IN_TRANSIT", "CANCELLED"}
       [] s = "IN_TRANSIT" -> {"DELIVERED"}
       [] s = "DELIVERED"  -> {"RETURNING"}
       [] s = "RETURNING"  -> {"RETURNED", "EXCHANGE_PROCESSED"}
       [] OTHER            -> {}]

canTransitionToNoCancel(s, t) ==
  t \in (transitions[s] \ {"CANCELLED"})

canTransitionTo(s, t) == t \in transitions[s]

canBeCancelledAlsoInTransit(s) == s \in {"PENDING", "PREPARED", "IN_TRANSIT"}

canBeCancelled(s) == s = "PENDING" \/ s = "PREPARED"

isPending(s) == s = "PENDING"
isPrepared(s) == s = "PREPARED"
isInTransit(s) == s = "IN_TRANSIT"
isDelivered(s) == s = "DELIVERED"
isReturning(s) == s = "RETURNING"

isTerminal(s) ==
  s = "DELIVERED" \/ s = "CANCELLED" \/ s = "RETURNED" \/ s = "EXCHANGE_PROCESSED"

\* ---------------------------------------------------------- ShipmentEvent
\* The private constructor: every field not given by a factory is absent.
\* eid is the generated event id, ts the clock value at construction.
ShipmentEvent(eid, ts, type, sid, oid) ==
  [eventId |-> eid, timestamp |-> ts, eventType |-> type,
   shipmentId |-> sid, orderId |-> oid,
   actor |-> None, description |-> None,
   previousStatus |-> None, newStatus |-> None,
   customerInfo |-> None, articles |-> None,
   shipmentType |-> None, relatedShipmentId |-> None]

\* description || <default text>
OrDefault(description, default) ==
  IF Truthy(description) THEN description ELSE default

createShipmentCreated(eid, ts, sid, oid, customerInfo, articles, actor, description) ==
  [ShipmentEvent(eid, ts, "SHIPMENT_CREATED", sid, oid) EXCEPT
     !.customerInfo = customerInfo, !.articles = articles, !.actor = actor,
     !.description = OrDefault(description, "default_created"),
     !.newStatus = "PENDING", !.shipmentType = "NORMAL"]

createMovedToPrepared(eid, ts, sid, oid, actor, description) ==
  [ShipmentEvent(eid, ts, "MOVED_TO_PREPARED", sid, oid) EXCEPT
     !.actor = actor,
     !.description = OrDefault(description, "default_prepared"),
     !.previousStatus = "PENDING", !.newStatus = "PREPARED"]

createMovedToInTransit(eid, ts, sid, oid, actor, description) ==
  [ShipmentEvent(eid, ts, "MOVED_TO_IN_TRANSIT", sid, oid) EXCEPT
     !.actor = actor,
     !.description = OrDefault(description, "default_in_transit"),
     !.previousStatus = "PREPARED", !.newStatus = "IN_TRANSIT"]

createMovedToDelivered(eid, ts, sid, oid, actor, description) ==
  [ShipmentEvent(eid, ts, "MOVED_TO_DELIVERED", sid, oid) EXCEPT
     !.actor = actor,
     !.description = OrDefault(description, "default_delivered"),
     !.previousStatus = "IN_TRANSIT", !.newStatus = "DELIVERED"]

createShipmentCancelled(eid, ts, sid, oid, previousStatus, actor, description) ==
  [ShipmentEvent(eid, ts, "SHIPMENT_CANCELLED", sid, oid) EXCEPT
     !.actor = actor,
     !.description = OrDefault(description, "default_cancelled"),
     !.previousStatus = previousStatus, !.newStatus = "CANCELLED"]

createReturnInitiated(eid, ts, sid, oid, actor, description) ==
  [ShipmentEvent(eid, ts, "RETURN_INITIATED", sid, oid) EXCEPT
     !.actor = actor,
     !.description = OrDefault(description, "default_return_initiated"),
     !.previousStatus = "DELIVERED", !.newStatus = "RETURNING"]

createReturnCompleted(eid, ts, sid, oid, actor, description) ==
  [ShipmentEvent(eid, ts, "RETURN_COMPLETED", sid, oid) EXCEPT
     !.actor = actor,
     !.description = OrDefault(description, "default_return_completed"),
     !.previousStatus = "RETURNING", !.newStatus = "RETURNED"]

createExchangeInitiated(eid, ts, sid, oid, newShipmentId, actor, description) ==
  [ShipmentEvent(eid, ts, "EXCHANGE_INITIATED", sid, oid) EXCEPT
     !.actor = actor,
     !.description = OrDefault(description, "default_exchange_initiated"),
     !.previousStatus = "RETURNING", !.newStatus = "EXCHANGE_PROCESSED",
     !.relatedShipmentId = newShipmentId]

createExchangeCompleted(eid, ts, sid, oid, originalShipmentId, customerInfo, articles, actor, description) ==
  [ShipmentEvent(eid, ts, "EXCHANGE_COMPLETED", sid, oid) EXCEPT
     !.actor = actor,
     !.description = OrDefault(description, "default_exchange_completed"),
     !.newStatus = "PENDING", !.relatedShipmentId = originalShipmentId,
     !.shipmentType = "EXCHANGE",
     !.customerInfo = customerInfo, !.articles = articles]

\* -------------------------------------------------------------- Shipment
\* (a variant that records the status the shipment leaves)
TrackingEntryOfPreviousStatus(event) ==
  [status |-> event.previousStatus,
   description |-> event.description,
   actor |-> event.actor]

\* A tracking entry.  The source copies event.timestamp, a property that
\* ShipmentEvent does not have, so the entry's timestamp is always absent.
TrackingEntry(event) ==
  [status |-> event.newStatus,
   description |-> event.description,
   actor |-> event.actor]

\* constructor
Shipment(id, orderId, customerInfo, articles, status, type) ==
  [id |-> id, orderId |-> orderId, status |-> status, type |-> type,
   customerInfo |-> customerInfo, articles |-> articles,
   tracking |-> << >>, relatedShipmentId |-> None, events |-> << >>]

applyEventNoTracking(shipment, event) ==
  [shipment EXCEPT
     !.status = IF Truthy(event.newStatus) THEN event.newStatus ELSE @,
     !.relatedShipmentId =
        IF Truthy(event.relatedShipmentId) THEN event.relatedShipmentId ELSE @,
     !.events = Append(@, event)]

\* (a variant that also copies the event's customer snapshot and line items)
applyEventTakesSnapshot(shipment, event) ==
  [shipment EXCEPT
     !.status = IF Truthy(event.newStatus) THEN event.newStatus ELSE @,
     !.tracking =
        IF Truthy(event.newStatus) THEN Append(@, TrackingEntry(event)) ELSE @,
     !.relatedShipmentId =
        IF Truthy(event.relatedShipmentId) THEN event.relatedShipmentId ELSE @,
     !.customerInfo = event.customerInfo,
     !.articles = event.articles,
     !.events = Append(@, event)]

applyEvent(shipment, event) ==
  [shipment EXCEPT
     !.status = IF Truthy(event.newStatus) THEN event.newStatus ELSE @,
     !.tracking =
        IF Truthy(event.newStatus) THEN Append(@, TrackingEntry(event)) ELSE @,
     !.relatedShipmentId =
        IF Truthy(event.relatedShipmentId) THEN event.relatedShipmentId ELSE @,
     !.events = Append(@, event)]

clearEvents(shipment) == [shipment EXCEPT !.events = << >>]

\* A domain operation returns [ok, shipment]: ok = FALSE is a thrown Error,
\* which leaves the aggregate as it was.
Rejected(shipment) == [ok |-> FALSE, shipment |-> shipment]
Accepted(shipment) == [ok |-> TRUE, shipment |-> shipment]

\* A variant of validateStateTransition that lets a cancelled shipment be
\* prepared again.
validateStateTransitionReopensCancelled(shipment, newStatus) ==
  \/ canTransitionTo(shipment.status, newStatus)
  \/ shipment.status = "CANCELLED" /\ newStatus = "PREPARED"

validateStateTransition(shipment, newStatus) ==
  canTransitionTo(shipment.status, newStatus)

moveToPrepared(shipment, eid, ts, actor, description) ==
  IF ~validateStateTransition(shipment, "PREPARED") THEN Rejected(shipment)
  ELSE Accepted(applyEvent(shipment,
         createMovedToPrepared(eid, ts, shipment.id, shipment.orderId,
                               actor, description)))

moveToInTransit(shipment, eid, ts, actor, description) ==
  IF ~validateStateTransition(shipment, "IN_TRANSIT") THEN Rejected(shipment)
  ELSE Accepted(applyEvent(shipment,
         createMovedToInTransit(eid, ts, shipment.id, shipment.orderId,
                                actor, description)))

\* A variant of moveToDelivered that skips validateStateTransition.
moveToDeliveredUnchecked(shipment, eid, ts, actor, description) ==
  Accepted(applyEvent(shipment,
    createMovedToDelivered(eid, ts, shipment.id, shipment.orderId,
                           actor, description)))

moveToDelivered(shipment, eid, ts, actor, description) ==
  IF ~validateStateTransition(shipment, "DELIVERED") THEN Rejected(shipment)
  ELSE Accepted(applyEvent(shipment,
         createMovedToDelivered(eid, ts, shipment.id, shipment.orderId,
                                actor, description)))

\* cancel passes (id, orderId, actor, description) to a factory whose
\* parameters are (shipmentId, orderId, previousStatus, actor, description).
cancel(shipment, eid, ts, actor, description) ==
  IF ~canBeCancelled(shipment.status) THEN Rejected(shipment)
  ELSE Accepted(applyEvent(shipment,
         createShipmentCancelled(eid, ts, shipment.id, shipment.orderId,
                                 actor, description, None)))

initiateReturn(shipment, eid, ts, actor, description) ==
  IF ~isDelivered(shipment.status) THEN Rejected(shipment)
  ELSE Accepted(applyEvent(shipment,
         createReturnInitiated(eid, ts, shipment.id, shipment.orderId,
                               actor, description)))

completeReturn(shipment, eid, ts, actor, description) ==
  IF ~isReturning(shipment.status) THEN Rejected(shipment)
  ELSE Accepted(applyEvent(shipment,
         createReturnCompleted(eid, ts, shipment.id, shipment.orderId,
                               actor, description)))

\* A variant of initiateExchange whose event does not name the new shipment.
initiateExchangeNoLink(shipment, eid, ts, newShipmentId, actor, description) ==
  IF ~isReturning(shipment.status) THEN Rejected(shipment)
  ELSE Accepted(applyEvent(shipment,
         createExchangeInitiated(eid, ts, shipment.id, shipment.orderId,
                                 None, actor, description)))

initiateExchange(shipment, eid, ts, newShipmentId, actor, description) ==
  IF ~isReturning(shipment.status) THEN Rejected(shipment)
  ELSE Accepted(applyEvent(shipment,
         createExchangeInitiated(eid, ts, shipment.id, shipment.orderId,
                                 newShipmentId, actor, description)))

\* createForExchange passes (id, orderId, originalShipmentId, actor,
\* description) to a factory whose parameters are (shipmentId, orderId,
\* originalShipmentId, customerInfo, articles, actor, description): the
\* event's customerInfo is the actor, its articles the description.
createForExchange(id, orderId, originalShipmentId, customerInfo, articles, eid, ts, actor, description) ==
  applyEvent(
    [Shipment(id, orderId, customerInfo, articles, "PENDING", "EXCHANGE")
       EXCEPT !.relatedShipmentId = originalShipmentId],
    createExchangeCompleted(eid, ts, id, orderId, originalShipmentId,
                            actor, description, None, None))

\* (a variant of the forEach that also pushes the event onto the buffer, as
\* applyEvent does)
FoldEventBuffering(shipment, event) ==
  [shipment EXCEPT
     !.status = IF Truthy(event.newStatus) THEN event.newStatus ELSE @,
     !.tracking =
        IF Truthy(event.newStatus) THEN Append(@, TrackingEntry(event)) ELSE @,
     !.type = IF Truthy(event.shipmentType) THEN event.shipmentType ELSE @,
     !.relatedShipmentId =
        IF Truthy(event.relatedShipmentId) THEN event.relatedShipmentId ELSE @,
     !.events = Append(@, event)]

\* The forEach of fromEvents: fold one stored event into the aggregate.
FoldEvent(shipment, event) ==
  [shipment EXCEPT
     !.status = IF Truthy(event.newStatus) THEN event.newStatus ELSE @,
     !.tracking =
        IF Truthy(event.newStatus) THEN Append(@, TrackingEntry(event)) ELSE @,
     !.type = IF Truthy(event.shipmentType) THEN event.shipmentType ELSE @,
     !.relatedShipmentId =
        IF Truthy(event.relatedShipmentId) THEN event.relatedShipmentId ELSE @]

RECURSIVE FoldEvents(_, _)
FoldEvents(shipment, events) ==
  IF events = << >> THEN shipment
  ELSE FoldEvents(FoldEvent(shipment, Head(events)), Tail(events))

\* fromEvents returns [ok, shipment]; ok = FALSE is one of its two throws.
NoShipment == Shipment(None, None, None, None, "PENDING", "NORMAL")

\* (a variant that asks the first event for its customer snapshot only)
fromEventsChecksCustomerOnly(events) ==
  IF Len(events) = 0 THEN Rejected(NoShipment)
  ELSE IF ~Truthy(events[1].customerInfo)
       THEN Rejected(NoShipment)
  ELSE Accepted(FoldEvents(
         Shipment(events[1].shipmentId, events[1].orderId,
                  events[1].customerInfo, events[1].articles,
                  "PENDING", "NORMAL"),
         events))

fromEventsFirstOnly(events) ==
  IF Len(events) = 0 THEN Rejected(NoShipment)
  ELSE IF ~Truthy(events[1].customerInfo) \/ ~Truthy(events[1].articles)
       THEN Rejected(NoShipment)
  ELSE Accepted(FoldEvents(
         Shipment(events[1].shipmentId, events[1].orderId,
                  events[1].customerInfo, events[1].articles,
                  "PENDING", "NORMAL"),
         << events[1] >>))

fromEvents(events) ==
  IF Len(events) = 0 THEN Rejected(NoShipment)
  ELSE IF ~Truthy(events[1].customerInfo) \/ ~Truthy(events[1].articles)
       THEN Rejected(NoShipment)
  ELSE Accepted(FoldEvents(
         Shipment(events[1].shipmentId, events[1].orderId,
                  events[1].customerInfo, events[1].articles,
                  "PENDING", "NORMAL"),
         events))

\* -------------------------------------------------- EventStoreRepository
storedIds(store) == {store[i].eventId : i \in 1..Len(store)}

\* insertMany(documents, {ordered: false}) on a collection whose _id is the
\* event id: a document whose _id is already stored is refused by the unique
\* index, every other document of the batch is inserted.
RECURSIVE insertManyNoUniqueIndex(_, _)
insertManyNoUniqueIndex(store, documents) ==
  IF documents = << >> THEN store
  ELSE insertManyNoUniqueIndex(Append(store, Head(documents)), Tail(documents))

\* (a variant of the store that replaces a stored document whose _id comes
\* again: the old one is removed and the new one appended)
RECURSIVE insertManyReplacing(_, _)
insertManyReplacing(store, documents) ==
  IF documents = << >> THEN store
  ELSE insertManyReplacing(
         Append(SelectSeq(store, LAMBDA d : d.eventId # Head(documents).eventId),
                Head(documents)),
         Tail(documents))

\* (a variant with {ordered: true}: the server stops at the first document
\* it refuses)
RECURSIVE insertManyOrdered(_, _)
insertManyOrdered(store, documents) ==
  IF documents = << >> THEN store
  ELSE IF Head(documents).eventId \in storedIds(store) THEN store
  ELSE insertManyOrdered(Append(store, Head(documents)), Tail(documents))

RECURSIVE insertMany(_, _)
insertMany(store, documents) ==
  IF documents = << >> THEN store
  ELSE insertMany(
         IF Head(documents).eventId \in storedIds(store)
           THEN store ELSE Append(store, Head(documents)),
         Tail(documents))

\* toPrimitives plus the overriding shipmentId of saveEvents.
toPrimitives(event, shipmentId) == [event EXCEPT !.shipmentId = shipmentId]

\* fromPrimitives keeps every stored field except the time: the constructor
\* ignores data.timestamp and stamps the event with the time of the read.
fromPrimitives(doc, now) == [doc EXCEPT !.timestamp = now]

\* (faulty variant: the batch is dropped, nothing reaches the log)
saveEventsStoresNothing(store, shipmentId, events) == store

\* saveEvents: the store after the call.  The duplicate-key error (11000) is
\* caught and swallowed, so the call returns normally either way.
saveEvents(store, shipmentId, events) ==
  IF Len(events) = 0 THEN store
  ELSE insertMany(store,
         [i \in 1..Len(events) |-> toPrimitives(events[i], shipmentId)])

RECURSIVE SelectDocs(_, _)
SelectDocs(store, shipmentId) ==
  IF store = << >> THEN << >>
  ELSE IF Head(store).shipmentId = shipmentId
       THEN << Head(store) >> \o SelectDocs(Tail(store), shipmentId)
       ELSE SelectDocs(Tail(store), shipmentId)

\* insert doc into a sequence sorted by timestamp, after its equals
RECURSIVE InsertByTimestamp(_, _)
InsertByTimestamp(sorted, doc) ==
  IF sorted = << >> THEN << doc >>
  ELSE IF Head(sorted).timestamp <= doc.timestamp
       THEN << Head(sorted) >> \o InsertByTimestamp(Tail(sorted), doc)
       ELSE << doc >> \o sorted

RECURSIVE SortByTimestamp(_)
SortByTimestamp(docs) ==
  IF docs = << >> THEN << >>
  ELSE InsertByTimestamp(SortByTimestamp(SubSeq(docs, 1, Len(docs) - 1)),
                         docs[Len(docs)])

\* find({shipmentId}).sort({timestamp: 1}) mapped through fromPrimitives
getEventsByShipmentId(store, shipmentId, now) ==
  LET docs == SortByTimestamp(SelectDocs(store, shipmentId))
  IN  [i \in 1..Len(docs) |-> fromPrimitives(docs[i], now)]

\* ------------------------------------------ ShipmentProjectionRepository
NoDoc == [id |-> None]

toDocument(shipment) ==
  [id |-> shipment.id, orderId |-> shipment.orderId,
   status |-> shipment.status, type |-> shipment.type,
   customerInfo |-> shipment.customerInfo, articles |-> shipment.articles,
   tracking |-> shipment.tracking,
   relatedShipmentId |-> shipment.relatedShipmentId]

\* A store that pushed the newest tracking entry onto the stored history
\* instead of replacing the record (the faulty variant of the upsert).
MergeDoc(old, new) ==
  IF old = NoDoc THEN new
  ELSE [new EXCEPT !.tracking =
          old.tracking \o << new.tracking[Len(new.tracking)] >>]

projectionSaveMerging(proj, shipment) ==
  [proj EXCEPT ![shipment.id] = MergeDoc(@, toDocument(shipment))]

\* updateOne({id}, {$set: document}, {upsert: true}): the document names
\* every field, so the stored record is replaced field by field.
projectionSave(proj, shipment) ==
  [proj EXCEPT ![shipment.id] = toDocument(shipment)]

\* ------------------------------------------------------ ShipmentRepository
\* loadById: [ok, shipment, error]; error is "notfound" or "load".
\* (a variant that hands out an empty aggregate when the log has no event
\* of the shipment)
loadByIdOfNothing(store, shipmentId, now) ==
  LET events == getEventsByShipmentId(store, shipmentId, now)
      r == fromEvents(events)
  IN  IF Len(events) = 0 \/ r.ok
        THEN [ok |-> TRUE, shipment |-> r.shipment, error |-> None]
        ELSE [ok |-> FALSE, shipment |-> NoShipment, error |-> "load"]

loadById(store, shipmentId, now) ==
  LET events == getEventsByShipmentId(store, shipmentId, now)
      r == fromEvents(events)
  IN  IF Len(events) = 0
        THEN [ok |-> FALSE, shipment |-> NoShipment, error |-> "notfound"]
      ELSE IF ~r.ok
        THEN [ok |-> FALSE, shipment |-> NoShipment, error |-> "load"]
      ELSE [ok |-> TRUE, shipment |-> r.shipment, error |-> None]

\* ------------------------------------------------------------------ state
VARIABLES
  query,          \* a (from, to) pair put to canTransitionTo, and the answer
  agg,            \* an aggregate held in memory by a caller of the domain API
  last,           \* the last call made on agg: the operation, whether it
                  \* returned (ok) or threw, the status before and after
  eventStore,     \* collection "events", in insertion order
  projection,     \* collection "shipment_projection", keyed by shipment id
  procs,          \* the use-case executions in flight
  outcome,        \* how the execution that ended last ended
  msgs,           \* the payment-approved notification of each order, as the
                  \* broker holds it
  published,      \* notifications handed to the message bus
  clock,          \* Date.now()
  nextEventId,    \* number of event ids generated so far
  nextShipmentId, \* number of shipment ids generated so far
  nCommands,      \* number of use-case executions started so far
  nFailures,      \* number of store failures, publish failures and crashes
                  \* so far
  clean           \* no execution has overlapped another, failed or crashed

vars ==
  << query, agg, last, eventStore, projection, procs, outcome, msgs, published,
     clock, nextEventId, nextShipmentId, nCommands, nFailures, clean >>

pureVars == << query, agg, last >>

sysVars ==
  << eventStore, projection, procs, outcome, msgs, published, clock, nextEventId,
     nextShipmentId, nCommands, nFailures, clean >>

Orders == {"o1"}
maxRetries == 3

\* generateShipmentId / unknown id
ShipmentId(n) == "s" \o ToString(n)
UnknownId == "s0"
Ids == {ShipmentId(n) : n \in 1..(MaxWork + 2)}

\* ShipmentValidator.validateArticles: line items are a non-empty array
LineItems == {"items1", "items2"}
validateArticles(articles) == articles \in LineItems

Kinds ==
  {"prepare", "transit", "deliver", "cancel", "initiateReturn",
   "completeReturn", "initiateExchange"}

IdleProc ==
  [pc |-> "idle", kind |-> None, sid |-> None, source |-> None,
   order |-> None, newArticles |-> None,
   shipment |-> NoShipment, shipment2 |-> NoShipment, result |-> None]

NoOutcome == [kind |-> None, sid |-> None, result |-> None]

\* What is kept of an execution that ended: its result, and for a command
\* that was turned down also which command it was and on which shipment.
Outcome(pr) ==
  IF pr.result \in {"rejected", "notfound"}
    THEN [kind |-> pr.kind, sid |-> pr.sid, result |-> pr.result]
    ELSE [kind |-> None, sid |-> None, result |-> pr.result]

QueuedMsg == [state |-> "queued", retryCount |-> 0]

NoQuery == [from |-> None, to |-> None, asked |-> FALSE, answer |-> FALSE]
NoOp == [op |-> None, ok |-> FALSE, before |-> None, after |-> None, n |-> 0]

\* the system specification holds no query and no caller-side aggregate
InitPure ==
  /\ query = NoQuery
  /\ agg = NoShipment
  /\ last = NoOp

\* ------------------------------------------------------ RabbitMqConsumer
\* shouldRetry reads x-retry-count from the delivered message.
shouldRetry(msg) == msg.retryCount < maxRetries

\* (a variant of handleMessage that acknowledges in a finally block)
handleMessageAcksAlways(msg, ok) == [msg EXCEPT !.state = "acked"]

\* handleMessage after processMessage returned (ok) or threw: ack, nack
\* with requeue, or nack without requeue.  The incremented x-retry-count is
\* written to the consumer's copy of the message; nack carries no headers,
\* so the broker requeues the message as it holds it.
handleMessageOutcome(msg, ok) ==
  IF ok THEN [msg EXCEPT !.state = "acked"]
  ELSE IF shouldRetry(msg) THEN [msg EXCEPT !.state = "queued"]
  ELSE [msg EXCEPT !.state = "dead"]

\* -------------------------------------------------------------- use cases
\* the use case returned or threw: result is "ok", "rejected" (a guard or a
\* validation threw), "notfound" or "error" (a store call threw)
Done(pr, result) == [pr EXCEPT !.pc = "done", !.result = result]

\* validateCurrentState / validateCanBeCancelled / validateCanInitiateReturn
\* / validateCanCompleteReturn of the use cases
validateCurrentState(kind, status) ==
  CASE kind = "prepare"        -> isPending(status)
    [] kind = "transit"        -> isPrepared(status)
    [] kind = "deliver"        -> isInTransit(status)
    [] kind = "cancel"         -> canBeCancelled(status)
    [] kind = "initiateReturn" -> isDelivered(status)
    [] kind = "completeReturn" -> isReturning(status)
    [] OTHER                   -> FALSE

\* step "Ejecutar logica de dominio" of the single-aggregate use cases
domainOperation(kind, shipment, eid, ts, actor) ==
  CASE kind = "prepare"  -> moveToPrepared(shipment, eid, ts, actor, "d_prepared")
    [] kind = "transit"  -> moveToInTransit(shipment, eid, ts, actor, "d_in_transit")
    [] kind = "deliver"  -> moveToDelivered(shipment, eid, ts, actor, "d_delivered")
    [] kind = "cancel"   -> cancel(shipment, eid, ts, actor, "d_cancelled")
    [] kind = "initiateReturn" ->
         initiateReturn(shipment, eid, ts, actor, "d_return_initiated")
    [] kind = "completeReturn" ->
         completeReturn(shipment, eid, ts, actor, "d_return_completed")
    [] OTHER -> Rejected(shipment)

\* A synchronous stretch of a use case yields the new record of the
\* execution and the number of event ids and shipment ids it generated.
Stretch(pr, nEvents, nIds) == [pr |-> pr, nEvents |-> nEvents, nIds |-> nIds]

\* CreateShipmentUseCase.execute up to the call of save
createShipmentExecute(pr, eid, sidN, ts) ==
  LET id == ShipmentId(sidN)
      actor == IF pr.source = "msg" THEN "system" ELSE "user"
      description == IF pr.source = "msg" THEN "d_from_payment" ELSE "d_created"
      event == createShipmentCreated(eid, ts, id, pr.order, "cust1",
                                     pr.newArticles, actor, description)
      shipment == [Shipment(id, pr.order, "cust1", pr.newArticles,
                            "PENDING", "NORMAL")
                     EXCEPT !.tracking = << TrackingEntry(event) >>,
                            !.events = << event >>]
  IN  Stretch([pr EXCEPT !.pc = "append", !.sid = id, !.shipment = shipment],
              1, 1)

\* (faulty variant: the rejection of the guard and of the domain operation
\* is ignored and the use case goes on to save)
transitionExecuteIgnoresRejection(pr, shipment, eid, ts) ==
  LET r == domainOperation(pr.kind, shipment, eid, ts, "user")
  IN  Stretch([pr EXCEPT !.pc = "append", !.shipment = r.shipment],
              IF r.ok THEN 1 ELSE 0, 0)

\* the single-aggregate use cases from the return of loadById to save
transitionExecute(pr, shipment, eid, ts) ==
  LET r == domainOperation(pr.kind, shipment, eid, ts, "user")
  IN  IF ~validateCurrentState(pr.kind, shipment.status) \/ ~r.ok
        THEN Stretch(Done(pr, "rejected"), 0, 0)
        ELSE Stretch([pr EXCEPT !.pc = "append", !.shipment = r.shipment], 1, 0)

\* InitiateExchangeUseCase.execute steps 5 to 9: new id, line items,
\* initiateExchange on the original, createForExchange, first save
exchangeContinue(pr, shipment, eid, sidN, ts) ==
  LET newShipmentId == ShipmentId(sidN)
      newArticles ==
        IF Truthy(pr.newArticles) THEN pr.newArticles ELSE shipment.articles
      r == initiateExchange(shipment, eid, ts, newShipmentId, "user", "d_exchange")
      newShipment ==
        createForExchange(newShipmentId, shipment.orderId, pr.sid,
                          shipment.customerInfo, newArticles,
                          eid + 1, ts, "user", "d_new_exchange")
  IN  IF ~validateArticles(newArticles) \/ ~r.ok
        THEN Stretch(Done(pr, "rejected"), 0, 1)
        ELSE Stretch([pr EXCEPT !.pc = "append", !.shipment = r.shipment,
                                !.shipment2 = newShipment], 2, 1)

\* InitiateExchangeUseCase.execute steps 3 and 4
exchangeExecute(pr, shipment, eid, sidN, ts) ==
  IF ~(isDelivered(shipment.status) \/ isReturning(shipment.status))
    THEN Stretch(Done(pr, "rejected"), 0, 0)
  ELSE IF isDelivered(shipment.status)
    THEN LET r == initiateReturn(shipment, eid, ts, "user", "d_return_for_exchange")
         IN  Stretch([pr EXCEPT !.pc = "appendR", !.shipment = r.shipment], 1, 0)
  ELSE exchangeContinue(pr, shipment, eid, sidN, ts)

\* the notifications a use case publishes after its saves
Notifications(pr) ==
  CASE pr.kind = "create"   -> {<< "shipping.created", pr.sid >>}
    [] pr.kind = "prepare"  -> {<< "shipping.state.changed", pr.sid >>}
    [] pr.kind = "transit"  -> {<< "shipping.state.changed", pr.sid >>}
    [] pr.kind = "deliver"  -> {<< "shipping.delivered", pr.sid >>}
    [] pr.kind = "cancel"   -> {<< "shipping.cancelled", pr.sid >>}
    [] pr.kind = "initiateReturn" -> {<< "shipping.return.initiated", pr.sid >>}
    [] pr.kind = "completeReturn" -> {<< "shipping.return.completed", pr.sid >>}
    [] pr.kind = "initiateExchange" ->
         {<< "shipping.exchange.initiated", pr.sid >>,
          << "shipping.exchange.completed", pr.shipment2.id >>}
    [] pr.kind = "completeExchange" ->
         {<< "shipping.exchange.completed.final", pr.shipment2.id >>}
    [] OTHER -> {}

\* ---------------------------------------------------------------- actions
\* At most two executions are in flight at a time.
CanStart == Cardinality(procs) <= 1 /\ nCommands + nFailures < MaxWork

\* one more fault may be injected
CanFail == nCommands + nFailures < MaxWork

\* Execution `old` (IdleProc when it is just starting) has run up to its
\* next await and is now `new`, or has ended (new.pc = "done").  When it has
\* ended and was started by a notification, the consumer acks or nacks it.
Settle(old, new) ==
  /\ procs' = (procs \ {old}) \cup (IF new.pc = "done" THEN {} ELSE {new})
  /\ outcome' = IF new.pc = "done" THEN Outcome(new) ELSE outcome
  /\ msgs' =
       IF new.pc = "done" /\ new.source = "msg"
         THEN [msgs EXCEPT ![new.order] = handleMessageOutcome(@, new.result = "ok")]
         ELSE msgs

Start(st) ==
  /\ CanStart
  /\ nCommands' = nCommands + 1
  /\ clean' = (clean /\ procs = {})
  /\ nextEventId' = nextEventId + st.nEvents
  /\ nextShipmentId' = nextShipmentId + st.nIds

\* at-least-once delivery: an acknowledged notification is delivered again
BrokerRedelivers(o) ==
  /\ msgs[o].state = "acked"
  /\ msgs' = [msgs EXCEPT ![o].state = "queued"]
  /\ UNCHANGED << eventStore, projection, procs, outcome, published, clock,
                  nextEventId, nextShipmentId, nCommands, nFailures, clean >>
  /\ UNCHANGED pureVars

\* PaymentApprovedConsumer.processMessage up to the first await of save
ConsumePaymentApproved(o) ==
  /\ msgs[o].state = "queued"
  /\ LET st == createShipmentExecute(
                 [IdleProc EXCEPT !.kind = "create", !.source = "msg",
                                  !.order = o, !.newArticles = "items1"],
                 nextEventId + 1, nextShipmentId + 1, clock)
     IN  /\ Start(st)
         /\ procs' = procs \cup {st.pr}
  /\ msgs' = [msgs EXCEPT ![o].state = "unacked"]
  /\ UNCHANGED << eventStore, projection, outcome, published, clock, nFailures >>
  /\ UNCHANGED pureVars

\* POST /shipments: CreateShipmentUseCase.execute up to the await of save
HttpCreate(o, articles) ==
  /\ LET st == createShipmentExecute(
                 [IdleProc EXCEPT !.kind = "create", !.source = "http",
                                  !.order = o, !.newArticles = articles],
                 nextEventId + 1, nextShipmentId + 1, clock)
     IN  /\ Start(st)
         /\ Settle(IdleProc, st.pr)
  /\ UNCHANGED << eventStore, projection, published, clock, nFailures >>
  /\ UNCHANGED pureVars

\* a transition / cancel / return / exchange command, from the return r of
\* loadById up to the next await of the use case (an execution touches
\* nothing shared before its read of the event store, so it is taken to
\* start at that read)
HttpCommandLoaded(kind, sid, newArticles, r) ==
  /\ LET pr == [IdleProc EXCEPT !.pc = "load", !.kind = kind, !.sid = sid,
                                !.source = "http", !.newArticles = newArticles]
         st == IF ~r.ok
                 THEN Stretch(Done(pr, IF r.error = "notfound"
                                         THEN "notfound" ELSE "error"), 0, 0)
               ELSE IF pr.kind = "initiateExchange"
                 THEN exchangeExecute(pr, r.shipment, nextEventId + 1,
                                      nextShipmentId + 1, clock)
               ELSE transitionExecute(pr, r.shipment, nextEventId + 1, clock)
     IN  /\ Start(st)
         /\ Settle(IdleProc, st.pr)
  /\ UNCHANGED << eventStore, projection, published, clock, nFailures >>
  /\ UNCHANGED pureVars

\* the command with its loadById
HttpCommand(kind, sid, newArticles) ==
  HttpCommandLoaded(kind, sid, newArticles, loadById(eventStore, sid, clock))

\* loadById throws a persistence error
LoadFails(kind, sid) ==
  /\ nCommands + nFailures + 1 < MaxWork
  /\ nFailures' = nFailures + 1
  /\ Start(Stretch(IdleProc, 0, 0))
  /\ Settle(IdleProc, Done([IdleProc EXCEPT !.kind = kind, !.sid = sid,
                                            !.source = "http"], "error"))
  /\ UNCHANGED << eventStore, projection, published, clock >>
  /\ UNCHANGED pureVars

\* a store call of save throws: the use case ends with a persistence error
\* and the aggregate keeps its buffer
Fails(pr, pcs) ==
  /\ pr.pc \in pcs
  /\ CanFail
  /\ nFailures' = nFailures + 1
  /\ Settle(pr, Done(pr, "error"))
  /\ clean' = FALSE
  /\ UNCHANGED << eventStore, projection, published, clock, nextEventId,
                  nextShipmentId, nCommands >>
  /\ UNCHANGED pureVars

AppendFails(pr) == Fails(pr, {"append", "appendR", "append2"})
UpsertFails(pr) == Fails(pr, {"upsert", "upsertR", "upsert2"})

\* ShipmentRepository.save, first await: eventStoreRepository.saveEvents
AppendStep(pr) ==
  /\ pr.pc \in {"append", "appendR", "append2"}
  /\ LET shipment == IF pr.pc = "append2" THEN pr.shipment2 ELSE pr.shipment
     IN  /\ eventStore' = saveEvents(eventStore, shipment.id, shipment.events)
         /\ Settle(pr, [pr EXCEPT !.pc =
                          CASE pr.pc = "append"  -> "upsert"
                            [] pr.pc = "appendR" -> "upsertR"
                            [] OTHER             -> "upsert2"])
  /\ clock' = clock + 1
  /\ UNCHANGED << projection, published, nextEventId, nextShipmentId,
                  nCommands, nFailures, clean >>
  /\ UNCHANGED pureVars

\* (a variant in which a publish that throws ends the use case with the
\* error)
afterPublishRethrows(pr, publishOk) ==
  Done(pr, IF publishOk THEN "ok" ELSE "error")

\* the try/catch around the publish calls that ends every use case: a
\* publish that throws is logged, and the use case returns the aggregate
afterPublish(pr, publishOk) == Done(pr, "ok")

\* the aggregate that execution pr is saving
Saved(pr) == IF pr.pc \in {"append2", "upsert2"} THEN pr.shipment2 ELSE pr.shipment

\* (a variant in which the exchange publishes after its first save already)
LastSaveOrFirst(pr) == pr.pc \in {"upsert", "upsert2"}

\* the last save of the use case of execution pr
LastSave(pr) ==
  \/ pr.pc = "upsert2"
  \/ pr.pc = "upsert" /\ pr.kind # "initiateExchange"

\* ShipmentRepository.save, second await (projectionRepository.save) and
\* clearEvents; then the use case runs up to its next await.  After its
\* last save the use case publishes and returns: publishOk tells whether
\* the publish succeeded or threw (the throw is caught and logged).
UpsertStep(pr, publishOk) ==
  /\ pr.pc \in {"upsert", "upsertR", "upsert2"}
  /\ publishOk \/ (LastSave(pr) /\ CanFail)
  /\ nFailures' = IF publishOk THEN nFailures ELSE nFailures + 1
  /\ LET shipment == IF pr.pc = "upsert2" THEN pr.shipment2 ELSE pr.shipment
         cleared ==
           IF pr.pc = "upsert2"
             THEN [pr EXCEPT !.shipment2 = clearEvents(shipment)]
             ELSE [pr EXCEPT !.shipment = clearEvents(shipment)]
         st == CASE pr.pc = "upsertR" ->
                      exchangeContinue(cleared, cleared.shipment,
                                       nextEventId + 1, nextShipmentId + 1, clock)
                 [] pr.pc = "upsert" /\ pr.kind = "initiateExchange" ->
                      Stretch([cleared EXCEPT !.pc = "append2"], 0, 0)
                 [] OTHER -> Stretch(afterPublish(cleared, publishOk), 0, 0)
     IN  /\ projection' = projectionSave(projection, shipment)
         /\ Settle(pr, st.pr)
         /\ nextEventId' = nextEventId + st.nEvents
         /\ nextShipmentId' = nextShipmentId + st.nIds
         /\ published' =
              IF LastSave(pr) /\ publishOk
                THEN published \cup Notifications(cleared)
                ELSE published
  /\ UNCHANGED << eventStore, clock, nCommands, clean >>
  /\ UNCHANGED pureVars

\* the process dies while execution pr awaits: nothing more of it runs, and
\* the broker requeues the notification it had not acknowledged
Crash(pr) ==
  /\ CanFail
  /\ nFailures' = nFailures + 1
  /\ procs' = procs \ {pr}
  /\ outcome' = Outcome(Done(pr, "error"))
  /\ msgs' = IF pr.source = "msg"
               THEN [msgs EXCEPT ![pr.order].state = "queued"]
               ELSE msgs
  /\ clean' = FALSE
  /\ UNCHANGED << eventStore, projection, published, clock, nextEventId,
                  nextShipmentId, nCommands >>
  /\ UNCHANGED pureVars

\* ------------------------------------------------ the database at start
\* The process starts over whatever the database holds.  What it holds was
\* left by earlier executions that ran one at a time and completed:
\* SeedScript is run through the use cases above, command by command.
SeedScript ==
  << "create", "prepare", "transit", "deliver", "initiateReturn" >>

EmptyDb ==
  [eventStore |-> << >>, projection |-> [id \in Ids |-> NoDoc],
   clock |-> 1, nextEventId |-> 0, nextShipmentId |-> 0]

\* ShipmentRepository.save when neither store call fails
saveCompletes(db, shipment, nEvents, nIds) ==
  [eventStore |-> saveEvents(db.eventStore, shipment.id, shipment.events),
   projection |-> projectionSave(db.projection, shipment),
   clock |-> db.clock + 1,
   nextEventId |-> db.nextEventId + nEvents,
   nextShipmentId |-> db.nextShipmentId + nIds]

\* one execution of a create or single-aggregate use case, alone
runAlone(db, kind) ==
  LET pr == [IdleProc EXCEPT !.kind = kind, !.source = "http",
                             !.order = "o1", !.newArticles = "items1",
                             !.sid = ShipmentId(1)]
      st == IF kind = "create"
              THEN createShipmentExecute(pr, db.nextEventId + 1,
                                         db.nextShipmentId + 1, db.clock)
              ELSE transitionExecute(
                     pr, loadById(db.eventStore, pr.sid, db.clock).shipment,
                     db.nextEventId + 1, db.clock)
  IN  IF st.pr.pc = "append"
        THEN saveCompletes(db, st.pr.shipment, st.nEvents, st.nIds)
        ELSE db

RECURSIVE SeedDb(_)
SeedDb(n) == IF n = 0 THEN EmptyDb ELSE runAlone(SeedDb(n - 1), SeedScript[n])

Init ==
  /\ InitPure
  /\ \E n \in 0..Len(SeedScript) :
       LET db == SeedDb(n)
       IN  /\ eventStore = db.eventStore
           /\ projection = db.projection
           /\ clock = db.clock
           /\ nextEventId = db.nextEventId
           /\ nextShipmentId = db.nextShipmentId
  /\ procs = {}
  /\ outcome = NoOutcome
  /\ msgs = [o \in Orders |-> QueuedMsg]
  /\ published = {}
  /\ nCommands = 0
  /\ nFailures = 0
  /\ clean = TRUE

Next ==
  \/ \E o \in Orders : BrokerRedelivers(o)
  \/ \E o \in Orders : ConsumePaymentApproved(o)
  \/ \E o \in Orders : HttpCreate(o, "items1")
  \/ \E n \in 0..nextShipmentId :
       LET r == loadById(eventStore, ShipmentId(n), clock)
       IN  \E kind \in Kinds, a \in {None, "items2"} :
             /\ (a # None => kind = "initiateExchange")
             /\ HttpCommandLoaded(kind, ShipmentId(n), a, r)
  \/ \E kind \in Kinds, n \in 0..nextShipmentId : LoadFails(kind, ShipmentId(n))
  \/ \E pr \in procs : AppendStep(pr)
  \/ \E pr \in procs : AppendFails(pr)
  \/ \E pr \in procs, publishOk \in BOOLEAN : UpsertStep(pr, publishOk)
  \/ \E pr \in procs : UpsertFails(pr)
  \/ \E pr \in procs : Crash(pr)

Spec == Init /\ [][Next]_vars

\* ------------------------------------------ the system at rest, empty
IdleSystem ==
  /\ eventStore = EmptyDb.eventStore
  /\ projection = EmptyDb.projection
  /\ clock = EmptyDb.clock
  /\ nextEventId = 0
  /\ nextShipmentId = 0
  /\ procs = {}
  /\ outcome = NoOutcome
  /\ msgs = [o \in Orders |-> QueuedMsg]
  /\ published = {}
  /\ nCommands = 0
  /\ nFailures = 0
  /\ clean = TRUE

\* ------------------------------- ShipmentStatus.canTransitionTo, alone
\* A caller holds a pair of statuses and asks canTransitionTo about it.
InitStatus ==
  /\ \E s \in Statuses, t \in Statuses :
       query = [from |-> s, to |-> t, asked |-> FALSE, answer |-> FALSE]
  /\ agg = NoShipment
  /\ last = NoOp
  /\ IdleSystem

AskCanTransitionTo ==
  /\ ~query.asked
  /\ query' = [query EXCEPT !.asked = TRUE,
                            !.answer = canTransitionTo(query.from, query.to)]
  /\ UNCHANGED << agg, last >>
  /\ UNCHANGED sysVars

NextStatus == AskCanTransitionTo

SpecStatus == InitStatus /\ [][NextStatus]_vars

\* ------------------------------------------- the Shipment aggregate, alone
\* A caller holds an aggregate fresh from one of the two ways the system
\* makes one (CreateShipmentUseCase, Shipment.createForExchange), calls the
\* domain operations on it in any order, legal or not, and may rebuild it
\* from the events it has buffered.  Nothing is saved, so the buffer holds
\* every event since creation.
InitAgg ==
  /\ query = NoQuery
  /\ agg \in
       { createShipmentExecute(
           [IdleProc EXCEPT !.kind = "create", !.source = "http",
                            !.order = "o1", !.newArticles = "items1"],
           1, 1, 1).pr.shipment,
         createForExchange(ShipmentId(1), "o1", UnknownId, "cust1", "items1",
                           1, 1, "user", "d_new_exchange") }
  /\ last = NoOp
  /\ IdleSystem

DomainOp(kind) ==
  /\ last.n < MaxAggOps
  /\ LET eid == last.n + 2
         ts == last.n + 2
         r == IF kind = "initiateExchange"
                THEN initiateExchange(agg, eid, ts, ShipmentId(2), "user",
                                      "d_exchange")
                ELSE domainOperation(kind, agg, eid, ts, "user")
     IN  /\ agg' = r.shipment
         /\ last' = [op |-> kind, ok |-> r.ok, before |-> agg.status,
                     after |-> r.shipment.status, n |-> last.n + 1]
  /\ UNCHANGED query
  /\ UNCHANGED sysVars

Replay ==
  /\ last.op # "fromEvents"
  /\ LET r == fromEvents(agg.events)
     IN  last' = [op |-> "fromEvents", ok |-> r.ok, before |-> agg.status,
                  after |-> r.shipment.status, n |-> last.n]
  /\ UNCHANGED << query, agg >>
  /\ UNCHANGED sysVars

NextAgg ==
  \/ \E kind \in Kinds : DomainOp(kind)
  \/ Replay

SpecAgg == InitAgg /\ [][NextAgg]_vars

\* ------------------------------- EventStoreRepository.saveEvents, alone
\* Callers hand saveEvents batches of events of shipment s1, some of them
\* stored already (a retry), up to two calls at a time.  The server takes
\* the documents of an unordered insertMany one by one, so the documents of
\* two calls in flight interleave.
StoredLog == SeedDb(3).eventStore

Batches ==
  { SubSeq(StoredLog, i, j) : i \in 1..Len(StoredLog), j \in 1..Len(StoredLog) }
    \ { << >> }

\* (a variant whose catch block rethrows the duplicate-key error too)
saveEventsCatchRethrows(code) == "error"

\* the catch block of saveEvents: error code 11000 (duplicate key) is
\* swallowed, any other error is rethrown
saveEventsCatch(code) == IF code = 11000 THEN "ok" ELSE "error"

\* how saveEvents ends: insertMany throws a bulk write error with code
\* 11000 when the unique index refused one of the documents
saveEventsResult(refused) == IF refused THEN saveEventsCatch(11000) ELSE "ok"

InitStore ==
  /\ InitPure
  /\ \E n \in 0..Len(StoredLog) : eventStore = SeedDb(n).eventStore
  /\ projection = EmptyDb.projection
  /\ clock = EmptyDb.clock
  /\ nextEventId = 0
  /\ nextShipmentId = 0
  /\ procs = {}
  /\ outcome = NoOutcome
  /\ msgs = [o \in Orders |-> QueuedMsg]
  /\ published = {}
  /\ nCommands = 0
  /\ nFailures = 0
  /\ clean = TRUE

StoreUnchanged ==
  /\ UNCHANGED << projection, msgs, published, clock, nextEventId,
                  nextShipmentId, nFailures, clean >>
  /\ UNCHANGED pureVars

\* saveEvents(shipmentId, events) up to the await of insertMany
SaveEventsCall(events) ==
  /\ CanStart
  /\ nCommands' = nCommands + 1
  /\ procs' = procs \cup
       { [pc |-> "insertMany", caller |-> nCommands + 1,
          documents |-> [i \in 1..Len(events) |->
                           toPrimitives(events[i], ShipmentId(1))],
          refused |-> FALSE] }
  /\ UNCHANGED << eventStore, outcome >>
  /\ StoreUnchanged

\* the server inserts (or refuses) the next document of a call; after the
\* last one insertMany returns or throws, and saveEvents ends
InsertDocument(call) ==
  /\ call.pc = "insertMany"
  /\ LET doc == Head(call.documents)
         refused == call.refused \/ doc.eventId \in storedIds(eventStore)
         rest == Tail(call.documents)
     IN  /\ eventStore' = insertMany(eventStore, << doc >>)
         /\ procs' = (procs \ {call}) \cup
              (IF rest = << >> THEN {}
               ELSE {[call EXCEPT !.documents = rest, !.refused = refused]})
         /\ outcome' =
              IF rest = << >>
                THEN [kind |-> "saveEvents", sid |-> ShipmentId(1),
                      result |-> saveEventsResult(refused)]
                ELSE outcome
  /\ UNCHANGED nCommands
  /\ StoreUnchanged

NextStore ==
  \/ \E events \in Batches : SaveEventsCall(events)
  \/ \E call \in procs : InsertDocument(call)

SpecStore == InitStore /\ [][NextStore]_vars

\* ------------------------------------ RabbitMqConsumer.handleMessage, alone
\* The broker holds one payment-approved message and delivers it to
\* PaymentApprovedConsumer; the result of CreateShipmentUseCase.execute is
\* an input of each delivery.  Here nCommands counts the deliveries handled
\* and nFailures the deliveries whose processing threw.
MessageContents ==
  [orderId : {None, "o1"}, articles : {None, "text", "empty", "items1"},
   customerInfo : {None, "c1"}, customerId : {None, "u1"},
   address : {None, "a1"}]

\* x-retry-count as the publisher sent it (absent counts as 0)
PublishedRetryCounts == {0, maxRetries}

UseCaseResults == {"ok", "rejected", "error"}

isArray(v) == v \in {"empty"} \cup LineItems
length(v) == IF v = "empty" THEN 0 ELSE 1

\* PaymentApprovedConsumer.validateMessage: TRUE when it does not throw
validateMessage(content) ==
  /\ Truthy(content.orderId)
  /\ Truthy(content.articles) /\ isArray(content.articles)
  /\ length(content.articles) # 0
  /\ \/ Truthy(content.customerInfo)
     \/ Truthy(content.customerId) /\ Truthy(content.address)

\* PaymentApprovedConsumer.processMessage: "ok" when it returns, else what
\* made it throw: the validation of the message, a guard of the use case
\* ("rejected") or one of its store calls ("error")
processMessage(content, useCaseResult) ==
  IF ~validateMessage(content) THEN "validation" ELSE useCaseResult

InitConsumer ==
  /\ InitPure
  /\ \E content \in MessageContents, n \in PublishedRetryCounts :
       msgs = [o \in Orders |->
                 [state |-> "queued", retryCount |-> n, content |-> content]]
  /\ eventStore = EmptyDb.eventStore
  /\ projection = EmptyDb.projection
  /\ clock = EmptyDb.clock
  /\ nextEventId = 0
  /\ nextShipmentId = 0
  /\ procs = {}
  /\ outcome = NoOutcome
  /\ published = {}
  /\ nCommands = 0
  /\ nFailures = 0
  /\ clean = TRUE

\* the consume callback: handleMessage(msg) on the next delivery of the
\* message of order o
HandleMessage(o, useCaseResult) ==
  /\ msgs[o].state = "queued"
  /\ nCommands < MaxDeliveries
  /\ LET r == processMessage(msgs[o].content, useCaseResult)
         handled == handleMessageOutcome(msgs[o], r = "ok")
     IN  /\ msgs' = [msgs EXCEPT ![o] = handled]
         /\ outcome' = [kind |-> r, sid |-> None, result |-> handled.state]
         /\ nFailures' = nFailures + (IF r = "ok" THEN 0 ELSE 1)
  /\ nCommands' = nCommands + 1
  /\ UNCHANGED << eventStore, projection, procs, published, clock,
                  nextEventId, nextShipmentId, clean >>
  /\ UNCHANGED pureVars

NextConsumer == \E o \in Orders, r \in UseCaseResults : HandleMessage(o, r)

SpecConsumer == InitConsumer /\ [][NextConsumer]_vars

\* ----------------- ShipmentRepository.validateConsistency / rebuildProjection
\* ShipmentProjectionRepository.toDomain
toDomain(document) ==
  [Shipment(document.id, document.orderId, document.customerInfo,
            document.articles, document.status, document.type)
     EXCEPT !.tracking = document.tracking,
            !.relatedShipmentId = document.relatedShipmentId]

\* ShipmentProjectionRepository.findById: the aggregate of the record, or
\* NoShipment for null
findById(proj, shipmentId) ==
  IF proj[shipmentId] = NoDoc THEN NoShipment ELSE toDomain(proj[shipmentId])

\* (a variant that takes a missing record for a consistent one)
compareStatusMissingIsFine(shipmentFromEvents, shipmentFromProjection) ==
  \/ shipmentFromProjection = NoShipment
  \/ shipmentFromEvents.status = shipmentFromProjection.status

\* validateConsistency after its two reads have returned
compareStatus(shipmentFromEvents, shipmentFromProjection) ==
  IF shipmentFromProjection = NoShipment THEN FALSE
  ELSE shipmentFromEvents.status = shipmentFromProjection.status

\* validateConsistency when nothing else runs between its two reads
validateConsistency(store, proj, shipmentId, now) ==
  LET r == loadById(store, shipmentId, now)
  IN  IF ~r.ok THEN FALSE
      ELSE compareStatus(r.shipment, findById(proj, shipmentId))

\* The service runs validateConsistency and rebuildProjection, up to two
\* calls at a time, over a database left by earlier executions whose last
\* saves may have appended their events and then failed to upsert: the log
\* of s1 holds the events of the first n commands of SeedScript, the
\* projection the record as of the first k <= n (none for k = 0).
InitRepair ==
  /\ InitPure
  /\ \E n \in 0..Len(SeedScript) :
       /\ eventStore = SeedDb(n).eventStore
       /\ clock = SeedDb(n).clock
       /\ nextEventId = SeedDb(n).nextEventId
       /\ nextShipmentId = SeedDb(n).nextShipmentId
       /\ \E k \in 0..n : projection = SeedDb(k).projection
  /\ procs = {}
  /\ outcome = NoOutcome
  /\ msgs = [o \in Orders |-> QueuedMsg]
  /\ published = {}
  /\ nCommands = 0
  /\ nFailures = 0
  /\ clean = TRUE

\* what is kept of a call that ended: found is the status of the record the
\* call read or replaced (None when there was none or it was not reached)
Report(kind, sid, result, found) ==
  [kind |-> kind, sid |-> sid, result |-> result, found |-> found]

RecordStatus(proj, sid) ==
  IF proj[sid] = NoDoc THEN None ELSE proj[sid].status

RepairUnchanged ==
  /\ UNCHANGED << eventStore, msgs, published, clock, nextEventId,
                  nextShipmentId >>
  /\ UNCHANGED pureVars

\* a call starts and awaits loadById; storeOk tells whether the event store
\* answered or threw
RepairStart(kind, sid, storeOk, failed) ==
  /\ CanStart
  /\ storeOk \/ nCommands + nFailures + 1 < MaxWork
  /\ nCommands' = nCommands + 1
  /\ nFailures' = IF storeOk THEN nFailures ELSE nFailures + 1
  /\ clean' = (clean /\ procs = {} /\ storeOk)
  /\ LET r == loadById(eventStore, sid, clock)
     IN  IF storeOk /\ r.ok
           THEN /\ procs' = procs \cup
                      {[IdleProc EXCEPT !.pc = "loaded", !.kind = kind,
                                        !.sid = sid, !.shipment = r.shipment]}
                /\ outcome' = outcome
           ELSE /\ procs' = procs
                /\ outcome' = Report(kind, sid, failed, None)
  /\ UNCHANGED projection
  /\ RepairUnchanged

\* a call ends after its second store call; storeOk tells whether the
\* projection store answered or threw
RepairEnd(pr, storeOk) ==
  /\ pr.pc = "loaded"
  /\ storeOk \/ CanFail
  /\ nFailures' = IF storeOk THEN nFailures ELSE nFailures + 1
  /\ clean' = (clean /\ storeOk)
  /\ procs' = procs \ {pr}
  /\ UNCHANGED nCommands
  /\ RepairUnchanged

\* validateConsistency(sid) up to the await of findById; loadById throwing
\* is caught and answered with false
ValidateConsistencyLoad(sid, storeOk) ==
  RepairStart("validateConsistency", sid, storeOk, "false")

\* validateConsistency from the return of findById to the end
ValidateConsistencyFind(pr, storeOk) ==
  /\ pr.kind = "validateConsistency"
  /\ RepairEnd(pr, storeOk)
  /\ outcome' =
       Report(pr.kind, pr.sid,
              IF storeOk /\ compareStatus(pr.shipment, findById(projection, pr.sid))
                THEN "true" ELSE "false",
              IF storeOk THEN RecordStatus(projection, pr.sid) ELSE None)
  /\ UNCHANGED projection

\* rebuildProjection(sid) up to the await of projectionRepository.save;
\* loadById throwing is rethrown
RebuildProjectionLoad(sid, storeOk) ==
  RepairStart("rebuildProjection", sid, storeOk, "error")

\* (a variant of the rebuild that upserts the record only when there is none)
rebuildSaveIfMissing(proj, shipment) ==
  IF proj[shipment.id] = NoDoc THEN projectionSave(proj, shipment) ELSE proj

\* the upsert of rebuildProjection
rebuildSave(proj, shipment) == projectionSave(proj, shipment)

\* rebuildProjection from the upsert to the end
RebuildProjectionSave(pr, storeOk) ==
  /\ pr.kind = "rebuildProjection"
  /\ RepairEnd(pr, storeOk)
  /\ projection' =
       IF storeOk THEN rebuildSave(projection, pr.shipment) ELSE projection
  /\ outcome' =
       Report(pr.kind, pr.sid, IF storeOk THEN "ok" ELSE "error",
              RecordStatus(projection, pr.sid))

NextRepair ==
  \/ \E n \in 0..1, storeOk \in BOOLEAN :
       ValidateConsistencyLoad(ShipmentId(n), storeOk)
  \/ \E pr \in procs, storeOk \in BOOLEAN : ValidateConsistencyFind(pr, storeOk)
  \/ \E n \in 0..1, storeOk \in BOOLEAN :
       RebuildProjectionLoad(ShipmentId(n), storeOk)
  \/ \E pr \in procs, storeOk \in BOOLEAN : RebuildProjectionSave(pr, storeOk)

SpecRepair == InitRepair /\ [][NextRepair]_vars

\* ------------------------------------ OrderRefundConsumer.processMessage
\* The broker holds one refund-processed message and delivers it to
\* OrderRefundConsumer over a database left by earlier executions that ran
\* alone.  nCommands counts the deliveries handled, nFailures those whose
\* processing threw.
RECURSIVE RunScript(_)
RunScript(script) ==
  IF script = << >> THEN EmptyDb
  ELSE runAlone(RunScript(SubSeq(script, 1, Len(script) - 1)),
                script[Len(script)])

RefundSeedScripts ==
  { SubSeq(SeedScript, 1, n) : n \in 0..Len(SeedScript) }
    \cup { << "create", "cancel" >>, << "create", "prepare", "cancel" >>,
           SeedScript \o << "completeReturn" >> }

RefundContents == [orderId : {None, "o1", "o2"}]

\* ShipmentProjectionRepository.findByOrderId: the ids of the records of
\* the order
findByOrderId(proj, orderId) ==
  { id \in Ids : proj[id] # NoDoc /\ proj[id].orderId = orderId }

\* (a variant of processShipmentRefund that cancels a shipment that "can be
\* cancelled directly")
processShipmentRefundCancels(proj, id) ==
  IF proj[id].status \in {"PENDING", "PREPARED"}
    THEN [proj EXCEPT ![id].status = "CANCELLED"]
    ELSE proj

\* processShipmentRefund and logRefundEvent: the switch on the status and
\* the refund record are console output only
processShipmentRefund(proj, id) == proj

RECURSIVE processShipments(_, _)
processShipments(proj, ids) ==
  IF ids = {} THEN proj
  ELSE LET id == CHOOSE x \in ids : TRUE
       IN  processShipments(processShipmentRefund(proj, id), ids \ {id})

\* OrderRefundConsumer.validateMessage
validateRefundMessage(content) == Truthy(content.orderId)

InitRefund ==
  /\ InitPure
  /\ \E script \in RefundSeedScripts :
       LET db == RunScript(script)
       IN  /\ eventStore = db.eventStore
           /\ projection = db.projection
           /\ clock = db.clock
           /\ nextEventId = db.nextEventId
           /\ nextShipmentId = db.nextShipmentId
  /\ \E content \in RefundContents :
       msgs = [o \in Orders |->
                 [state |-> "queued", retryCount |-> 0, content |-> content]]
  /\ procs = {}
  /\ outcome = NoOutcome
  /\ published = {}
  /\ nCommands = 0
  /\ nFailures = 0
  /\ clean = TRUE

\* handleMessage(msg) of OrderRefundConsumer on the next delivery: storeOk
\* tells whether findByOrderId answered or threw
HandleRefundMessage(o, storeOk) ==
  /\ msgs[o].state = "queued"
  /\ nCommands < MaxDeliveries
  /\ LET content == msgs[o].content
         r == IF ~validateRefundMessage(content) THEN "validation"
              ELSE IF ~storeOk THEN "error" ELSE "ok"
         shipments == IF r = "ok"
                        THEN findByOrderId(projection, content.orderId)
                        ELSE {}
         handled == handleMessageOutcome(msgs[o], r = "ok")
     IN  /\ projection' = processShipments(projection, shipments)
         /\ msgs' = [msgs EXCEPT ![o] = handled]
         /\ outcome' = [kind |-> r, sid |-> shipments, result |-> handled.state]
         /\ nFailures' = nFailures + (IF r = "ok" THEN 0 ELSE 1)
  /\ nCommands' = nCommands + 1
  /\ UNCHANGED << eventStore, procs, published, clock, nextEventId,
                  nextShipmentId, clean >>
  /\ UNCHANGED pureVars

NextRefund == \E o \in Orders, storeOk \in BOOLEAN : HandleRefundMessage(o, storeOk)

SpecRefund == InitRefund /\ [][NextRefund]_vars

\* --------------------------------------- the service after an exchange
\* The service starts over a database in which shipment s1 went through
\* delivery and return into an exchange that made shipment s2, and s2 was
\* then moved on by commands that ran alone and completed.
\* one single-aggregate use case on shipment sid, alone
runOn(db, kind, sid) ==
  LET pr == [IdleProc EXCEPT !.kind = kind, !.source = "http", !.sid = sid]
      st == transitionExecute(pr, loadById(db.eventStore, sid, db.clock).shipment,
                              db.nextEventId + 1, db.clock)
  IN  IF st.pr.pc = "append"
        THEN saveCompletes(db, st.pr.shipment, st.nEvents, st.nIds)
        ELSE db

\* InitiateExchangeUseCase.execute on a RETURNING shipment sid, alone and
\* without new line items
exchangeAlone(db, sid) ==
  LET pr == [IdleProc EXCEPT !.kind = "initiateExchange", !.source = "http",
                             !.sid = sid]
      st == exchangeExecute(pr, loadById(db.eventStore, sid, db.clock).shipment,
                            db.nextEventId + 1, db.nextShipmentId + 1, db.clock)
  IN  IF st.pr.pc = "append"
        THEN saveCompletes(
               saveCompletes(db, st.pr.shipment, st.nEvents, st.nIds),
               st.pr.shipment2, 0, 0)
        ELSE db

RECURSIVE runScriptOn(_, _, _)
runScriptOn(db, script, sid) ==
  IF script = << >> THEN db
  ELSE runOn(runScriptOn(db, SubSeq(script, 1, Len(script) - 1), sid),
             script[Len(script)], sid)

ExchangedDb == exchangeAlone(SeedDb(Len(SeedScript)), ShipmentId(1))

ExchangedScripts ==
  { << "prepare", "transit" >>,
    << "prepare", "transit", "deliver" >>,
    << "prepare", "transit", "deliver", "initiateReturn" >> }

InitExchanged ==
  /\ InitPure
  /\ \E script \in ExchangedScripts :
       LET db == runScriptOn(ExchangedDb, script, ShipmentId(2))
       IN  /\ eventStore = db.eventStore
           /\ projection = db.projection
           /\ clock = db.clock
           /\ nextEventId = db.nextEventId
           /\ nextShipmentId = db.nextShipmentId
  /\ procs = {}
  /\ outcome = NoOutcome
  /\ msgs = [o \in Orders |-> QueuedMsg]
  /\ published = {}
  /\ nCommands = 0
  /\ nFailures = 0
  /\ clean = TRUE

SpecExchanged == InitExchanged /\ [][Next]_vars

\* ------------------------------------- ShipmentRepository.save, called again
\* A caller holds an aggregate with buffered events (a new shipment, or one
\* that loadById returned and that accepted one or two domain operations)
\* and calls save on it; when save throws, the caller calls it again on the
\* same aggregate.  Here nCommands counts the calls of save, nFailures the
\* store calls that threw, and last.n the calls of saveEvents that returned;
\* last.before and last.after tell of the last such call how many events of
\* its batch were stored already and how many it stored.
RECURSIVE operateOn(_, _, _, _)
operateOn(shipment, script, eid, ts) ==
  IF script = << >> THEN shipment
  ELSE operateOn(domainOperation(Head(script), shipment, eid, ts, "user").shipment,
                 Tail(script), eid + 1, ts)

\* the stores after the first n commands of SeedScript, and the aggregate of
\* a caller that loaded s1 then and ran the next m commands on it
SaveSeed(n, m) ==
  LET db == SeedDb(n)
  IN  [db |-> db,
       shipment |->
         operateOn(loadById(db.eventStore, ShipmentId(1), db.clock).shipment,
                   SubSeq(SeedScript, n + 1, n + m), db.nextEventId + 1, db.clock)]

\* the empty stores, and a shipment CreateShipmentUseCase has just made
SaveSeedNew ==
  [db |-> EmptyDb,
   shipment |-> createShipmentExecute(
                  [IdleProc EXCEPT !.kind = "create", !.source = "http",
                                   !.order = "o1", !.newArticles = "items1"],
                  1, 1, 1).pr.shipment]

SaveSeeds ==
  {SaveSeedNew} \cup
  { SaveSeed(n, 1) : n \in 1..(Len(SeedScript) - 1) } \cup
  { SaveSeed(n, 2) : n \in 1..(Len(SeedScript) - 2) }

InitSave ==
  /\ query = NoQuery
  /\ last = [NoOp EXCEPT !.op = "save"]
  /\ \E seed \in SaveSeeds :
       /\ agg = seed.shipment
       /\ eventStore = seed.db.eventStore
       /\ projection = seed.db.projection
       /\ clock = seed.db.clock
       /\ nextEventId = seed.db.nextEventId + Len(seed.shipment.events)
       /\ nextShipmentId = IF seed = SaveSeedNew THEN 1 ELSE seed.db.nextShipmentId
  /\ procs = {}
  /\ outcome = NoOutcome
  /\ msgs = [o \in Orders |-> QueuedMsg]
  /\ published = {}
  /\ nCommands = 0
  /\ nFailures = 0
  /\ clean = TRUE

SaveUnchanged ==
  /\ UNCHANGED << msgs, published, clock, nextEventId, nextShipmentId, clean >>
  /\ UNCHANGED query

SaveOutcome(result) == [kind |-> "save", sid |-> agg.id, result |-> result]

\* save(shipment) up to its first await: saveEvents when the buffer holds
\* events, the projection save otherwise
SaveCall ==
  /\ procs = {}
  /\ nCommands < MaxSaves
  /\ nCommands' = nCommands + 1
  /\ procs' = {[pc |-> IF Len(agg.events) > 0 THEN "saveEvents" ELSE "projection"]}
  /\ UNCHANGED << agg, last, eventStore, projection, outcome, nFailures >>
  /\ SaveUnchanged

\* insertMany has run: saveEvents returns (a duplicate-key error is
\* swallowed) and save goes on to the projection, or saveEvents throws and
\* so does save
SaveEventsReturns(call) ==
  /\ call.pc = "saveEvents"
  /\ LET refused == \E k \in 1..Len(agg.events) :
                      agg.events[k].eventId \in storedIds(eventStore)
         result == saveEventsResult(refused)
     IN  /\ eventStore' = saveEvents(eventStore, agg.id, agg.events)
         /\ procs' = IF result = "ok" THEN {[call EXCEPT !.pc = "projection"]} ELSE {}
         /\ outcome' = IF result = "ok" THEN outcome ELSE SaveOutcome("error")
         /\ last' = [last EXCEPT
                        !.n = @ + 1, !.ok = (result = "ok"),
                        !.before = Cardinality({ k \in 1..Len(agg.events) :
                                     agg.events[k].eventId \in storedIds(eventStore) }),
                        !.after = Len(eventStore') - Len(eventStore)]
  /\ UNCHANGED << agg, projection, nCommands, nFailures >>
  /\ SaveUnchanged

\* insertMany fails with another error after the server stored the first k
\* documents: saveEvents rethrows, and save throws
SaveEventsThrows(call, k) ==
  /\ call.pc = "saveEvents"
  /\ nFailures' = nFailures + 1
  /\ eventStore' = saveEvents(eventStore, agg.id, SubSeq(agg.events, 1, k))
  /\ procs' = {}
  /\ outcome' = SaveOutcome("error")
  /\ UNCHANGED << agg, last, projection, nCommands >>
  /\ SaveUnchanged

\* projectionRepository.save returned: the buffer is cleared, save returns
ProjectionSaveReturns(call) ==
  /\ call.pc = "projection"
  /\ projection' = projectionSave(projection, agg)
  /\ agg' = clearEvents(agg)
  /\ procs' = {}
  /\ outcome' = SaveOutcome("ok")
  /\ UNCHANGED << last, eventStore, nCommands, nFailures >>
  /\ SaveUnchanged

\* projectionRepository.save throws (the server may have applied the
\* update all the same): save throws
ProjectionSaveThrows(call, applied) ==
  /\ call.pc = "projection"
  /\ nFailures' = nFailures + 1
  /\ projection' = IF applied THEN projectionSave(projection, agg) ELSE projection
  /\ procs' = {}
  /\ outcome' = SaveOutcome("error")
  /\ UNCHANGED << agg, last, eventStore, nCommands >>
  /\ SaveUnchanged

NextSave ==
  \/ SaveCall
  \/ \E call \in procs : SaveEventsReturns(call)
  \/ \E call \in procs, k \in 0..Len(agg.events) : SaveEventsThrows(call, k)
  \/ \E call \in procs : ProjectionSaveReturns(call)
  \/ \E call \in procs, applied \in BOOLEAN : ProjectionSaveThrows(call, applied)

SpecSave == InitSave /\ [][NextSave]_vars

\* ------------------------------------------- EventStoreRepository, the reads
\* A caller reads the log of a service at rest: by shipment id, by order
\* id, by time range and by event type.  outcome holds the last read: which
\* one, its argument, and the events returned.
Reverse(s) == [i \in 1..Len(s) |-> s[Len(s) + 1 - i]]

\* find(filter).sort({timestamp: direction}).toArray() mapped through
\* fromPrimitives; matching holds the documents the filter selects
find(matching, direction, now) ==
  LET docs == SortByTimestamp(matching)
      sorted == IF direction = 1 THEN docs ELSE Reverse(docs)
  IN  [i \in 1..Len(sorted) |-> fromPrimitives(sorted[i], now)]

getEventsByOrderId(store, orderId, now) ==
  find(SelectSeq(store, LAMBDA doc : doc.orderId = orderId), 1, now)

getEventsByDateRange(store, startDate, endDate, now) ==
  find(SelectSeq(store, LAMBDA doc : /\ doc.timestamp >= startDate
                                     /\ doc.timestamp <= endDate),
       1, now)

getEventsByType(store, eventType, now) ==
  find(SelectSeq(store, LAMBDA doc : doc.eventType = eventType), 0 - 1, now)

ReadDbs ==
  { SeedDb(n) : n \in 0..Len(SeedScript) } \cup
  { runScriptOn(ExchangedDb, script, ShipmentId(2)) : script \in ExchangedScripts }

InitReads ==
  /\ InitPure
  /\ \E db \in ReadDbs :
       /\ eventStore = db.eventStore
       /\ projection = db.projection
       /\ clock = db.clock
       /\ nextEventId = db.nextEventId
       /\ nextShipmentId = db.nextShipmentId
  /\ procs = {}
  /\ outcome = NoOutcome
  /\ msgs = [o \in Orders |-> QueuedMsg]
  /\ published = {}
  /\ nCommands = 0
  /\ nFailures = 0
  /\ clean = TRUE

ReadReturns(kind, argument, events) ==
  /\ outcome' = [kind |-> kind, sid |-> argument, result |-> events]
  /\ UNCHANGED << eventStore, projection, procs, msgs, published, clock,
                  nextEventId, nextShipmentId, nCommands, nFailures, clean >>
  /\ UNCHANGED pureVars

ReadByShipmentId(sid) ==
  ReadReturns("getEventsByShipmentId", sid,
              getEventsByShipmentId(eventStore, sid, clock))

ReadByOrderId(orderId) ==
  ReadReturns("getEventsByOrderId", orderId,
              getEventsByOrderId(eventStore, orderId, clock))

ReadByDateRange(startDate, endDate) ==
  /\ startDate <= endDate
  /\ ReadReturns("getEventsByDateRange", << startDate, endDate >>,
                 getEventsByDateRange(eventStore, startDate, endDate, clock))

ReadByType(eventType) ==
  ReadReturns("getEventsByType", eventType,
              getEventsByType(eventStore, eventType, clock))

NextReads ==
  \/ \E n \in 0..nextShipmentId : ReadByShipmentId(ShipmentId(n))
  \/ \E orderId \in {"o1", "o2"} : ReadByOrderId(orderId)
  \/ \E startDate \in 1..clock, endDate \in 1..clock :
       ReadByDateRange(startDate, endDate)
  \/ \E i \in 1..Len(eventStore) : ReadByType(eventStore[i].eventType)

SpecReads == InitReads /\ [][NextReads]_vars

\* ------------------------------------------------ CompleteExchangeUseCase
\* The service holds the two shipments of an exchange; operators send
\* complete-exchange commands naming an original shipment, a new shipment
\* and the condition of the returned product.  An execution holds the new
\* shipment as pr.shipment (the one it saves) and the original as
\* pr.shipment2.
ProductConditions == {None, "good", "damaged", "defective"}

validateExchangeLink(originalShipment, newShipment) ==
  /\ newShipment.relatedShipmentId = originalShipment.id
  /\ newShipment.type = "EXCHANGE"

validateStates(originalShipment, newShipment) ==
  /\ isReturning(originalShipment.status)
       \/ originalShipment.status = "EXCHANGE_PROCESSED"
  /\ isPending(newShipment.status) \/ isPrepared(newShipment.status)
       \/ isInTransit(newShipment.status)

\* CompleteExchangeUseCase.execute from the return of the two loadById
\* calls up to the await of save, or to its end when it saves nothing
completeExchangeExecute(pr, r1, r2, eid, ts) ==
  IF pr.sid = pr.newShipmentId THEN Stretch(Done(pr, "rejected"), 0, 0)
  ELSE IF ~r1.ok
    THEN Stretch(Done(pr, IF r1.error = "notfound" THEN "notfound" ELSE "error"), 0, 0)
  ELSE IF ~r2.ok
    THEN Stretch(Done(pr, IF r2.error = "notfound" THEN "notfound" ELSE "error"), 0, 0)
  ELSE IF ~validateExchangeLink(r1.shipment, r2.shipment)
          \/ ~validateStates(r1.shipment, r2.shipment)
    THEN Stretch(Done(pr, "rejected"), 0, 0)
  ELSE IF isPending(r2.shipment.status)
          /\ (~Truthy(pr.productCondition) \/ pr.productCondition = "good")
    THEN LET r == moveToPrepared(r2.shipment, eid, ts, "user", "d_exchange_completed")
         IN  Stretch([pr EXCEPT !.pc = "append", !.shipment = r.shipment,
                                !.shipment2 = r1.shipment], 1, 0)
  ELSE Stretch(Done([pr EXCEPT !.shipment = r2.shipment,
                               !.shipment2 = r1.shipment], "ok"), 0, 0)

\* POST complete-exchange: the use case up to its first await after the
\* loads; when it saves nothing it publishes and returns at once
CompleteExchangeCall(originalShipmentId, newShipmentId, productCondition, publishOk) ==
  /\ LET pr == [pc |-> "load", kind |-> "completeExchange",
                sid |-> originalShipmentId, source |-> "http", order |-> None,
                newArticles |-> None, shipment |-> NoShipment,
                shipment2 |-> NoShipment, result |-> None,
                newShipmentId |-> newShipmentId,
                productCondition |-> productCondition]
         st == completeExchangeExecute(
                 pr, loadById(eventStore, originalShipmentId, clock),
                 loadById(eventStore, newShipmentId, clock), nextEventId + 1, clock)
         publishes == st.pr.pc = "done" /\ st.pr.result = "ok"
     IN  /\ Start(st)
         /\ Settle(IdleProc, st.pr)
         /\ publishOk \/ (publishes /\ nCommands + nFailures + 1 < MaxWork)
         /\ nFailures' = IF publishOk THEN nFailures ELSE nFailures + 1
         /\ published' = IF publishes /\ publishOk
                           THEN published \cup Notifications(st.pr)
                           ELSE published
  /\ UNCHANGED << eventStore, projection, clock >>
  /\ UNCHANGED pureVars

\* the stores after an exchange of s1 that ran alone, the new shipment s2
\* left as it was made or moved on
CompleteExchangeScripts ==
  { << >>, << "prepare" >>, << "prepare", "transit" >>,
    << "prepare", "transit", "deliver" >>, << "cancel" >> }

InitCompleteExchange ==
  /\ InitPure
  /\ \E script \in CompleteExchangeScripts :
       LET db == runScriptOn(ExchangedDb, script, ShipmentId(2))
       IN  /\ eventStore = db.eventStore
           /\ projection = db.projection
           /\ clock = db.clock
           /\ nextEventId = db.nextEventId
           /\ nextShipmentId = db.nextShipmentId
  /\ procs = {}
  /\ outcome = NoOutcome
  /\ msgs = [o \in Orders |-> QueuedMsg]
  /\ published = {}
  /\ nCommands = 0
  /\ nFailures = 0
  /\ clean = TRUE

NextCompleteExchange ==
  \/ \E n \in 0..nextShipmentId, m \in 0..nextShipmentId :
       \E c \in ProductConditions, publishOk \in BOOLEAN :
         CompleteExchangeCall(ShipmentId(n), ShipmentId(m), c, publishOk)
  \/ \E pr \in procs : AppendStep(pr)
  \/ \E pr \in procs : AppendFails(pr)
  \/ \E pr \in procs, publishOk \in BOOLEAN : UpsertStep(pr, publishOk)
  \/ \E pr \in procs : UpsertFails(pr)

SpecCompleteExchange == InitCompleteExchange /\ [][NextCompleteExchange]_vars

\* ------------------------------------------------ Shipment.fromEvents, alone
\* A caller hands fromEvents a list of events read from the log: the events
\* of one shipment, oldest or newest first, from the k-th on, the first of
\* them as stored or with its customer snapshot, its line items or both
\* missing.  outcome holds the
\* list handed over and whether fromEvents returned; agg is what it
\* returned.
StripFirst(events, fields) ==
  [i \in 1..Len(events) |->
     IF i > 1 THEN events[i]
     ELSE [events[i] EXCEPT
             !.customerInfo = IF "customerInfo" \in fields THEN None ELSE @,
             !.articles = IF "articles" \in fields THEN None ELSE @]]

FromEventsCall(events) ==
  /\ LET r == fromEvents(events)
     IN  /\ outcome' = [kind |-> "fromEvents", sid |-> events, result |-> r.ok]
         /\ agg' = r.shipment
  /\ UNCHANGED << eventStore, projection, procs, msgs, published, clock,
                  nextEventId, nextShipmentId, nCommands, nFailures, clean >>
  /\ UNCHANGED << query, last >>

NextReplay ==
  \E n \in 0..nextShipmentId, fields \in SUBSET {"customerInfo", "articles"} :
    \E newestFirst \in BOOLEAN :
      LET read == getEventsByShipmentId(eventStore, ShipmentId(n), clock)
          events == IF newestFirst THEN Reverse(read) ELSE read
      IN  \E k \in 1..(Len(events) + 1) :
            FromEventsCall(StripFirst(SubSeq(events, k, Len(events)), fields))

SpecReplay == InitReads /\ [][NextReplay]_vars

\* ================================================================ claims
\* the transition table as the specification states it
StatedTable ==
  { << "PENDING", "PREPARED" >>, << "PENDING", "CANCELLED" >>,
    << "PREPARED", "IN_TRANSIT" >>, << "PREPARED", "CANCELLED" >>,
    << "IN_TRANSIT", "DELIVERED" >>, << "DELIVERED", "RETURNING" >>,
    << "RETURNING", "RETURNED" >>, << "RETURNING", "EXCHANGE_PROCESSED" >> }

\* C1: for every pair of statuses (s, t), canTransitionTo allows s -> t
\* exactly when the pair is in the stated table; CANCELLED, RETURNED and
\* EXCHANGE_PROCESSED allow no target at all.
C1_CanTransitionToIsTheTable ==
  query.asked =>
    /\ query.answer <=> (<< query.from, query.to >> \in StatedTable)
    /\ query.from \in {"CANCELLED", "RETURNED", "EXCHANGE_PROCESSED"}
          => ~query.answer

C1_Witness_CancelFromPreparedAllowed ==
  /\ query.asked
  /\ query.from = "PREPARED" /\ query.to = "CANCELLED"
  /\ query.answer

\* C2: cancel succeeds if and only if the shipment's status is PENDING or
\* PREPARED; from every other status it throws and the status stays what
\* it was.
C2_CancelOnlyFromPendingOrPrepared ==
  last.op = "cancel" =>
    /\ last.ok <=> (last.before \in {"PENDING", "PREPARED"})
    /\ last.ok => agg.status = "CANCELLED"
    /\ ~last.ok => agg.status = last.before

C2_Witness_CancelInTransitRejected ==
  /\ last.op = "cancel"
  /\ ~last.ok
  /\ last.before = "IN_TRANSIT"
  /\ agg.status = "IN_TRANSIT"

\* C3: for every sequence of domain operations legal from PENDING,
\* fromEvents over the events they produced (creation event first, in
\* production order) returns an aggregate whose status is the target of
\* the last transition.
C3_ReplayYieldsLastTarget ==
  last.op = "fromEvents" =>
    /\ last.ok
    /\ last.after = agg.events[Len(agg.events)].newStatus
    /\ last.after = agg.status

C3_Witness_ReplayAfterFullPath ==
  /\ last.op = "fromEvents"
  /\ Len(agg.events) = 6
  /\ agg.status = "EXCHANGE_PROCESSED"
  /\ last.after = "EXCHANGE_PROCESSED"

\* C5: appending an event whose id is already stored (one call after
\* another, a retry, or two callers at once) never leaves two stored events
\* with that id and never raises an error to the caller.
C5_AppendIsIdempotent ==
  /\ \A i \in 1..Len(eventStore), j \in 1..Len(eventStore) :
       eventStore[i].eventId = eventStore[j].eventId => i = j
  /\ outcome.result # "error"

\* two calls have returned, each with at least one event, and a single
\* event is stored: one of them handed in an id that was stored already
C5_Witness_DuplicateAbsorbed ==
  /\ nCommands = 2
  /\ procs = {}
  /\ outcome.kind = "saveEvents"
  /\ outcome.result = "ok"
  /\ Len(eventStore) = 1

\* the stored events of shipment id that carry a status
StatusDocs(id) ==
  LET docs == SelectDocs(eventStore, id)
  IN  { i \in 1..Len(docs) : Truthy(docs[i].newStatus) }

\* C4 (as stated): for every aggregate the system produces, save followed
\* by loadById of its id returns an aggregate with the same status, kind,
\* line items and number of tracking entries.  Stated for a save that runs
\* with no other execution in flight and after no failure.
C4_SaveThenLoadRoundTrip ==
  [][\A pr \in procs, publishOk \in BOOLEAN :
       (clean /\ procs = {pr} /\ UpsertStep(pr, publishOk)) =>
         LET r == loadById(eventStore', Saved(pr).id, clock')
         IN  /\ r.ok
             /\ r.shipment.status = Saved(pr).status
             /\ r.shipment.type = Saved(pr).type
             /\ r.shipment.articles = Saved(pr).articles
             /\ Len(r.shipment.tracking) = Len(Saved(pr).tracking)]_vars

\* C6: save appends the buffered events before it upserts the projection,
\* so whatever failure or crash interrupts a save, the projection record of
\* a shipment never shows a status change whose event is missing from the
\* log: its status and every entry of its tracking history have their
\* event in the log.
C6_LogNeverBehindProjection ==
  \A id \in Ids :
    projection[id] # NoDoc =>
      LET docs == SelectDocs(eventStore, id)
      IN  /\ \E i \in 1..Len(docs) : docs[i].newStatus = projection[id].status
          /\ \A k \in 1..Len(projection[id].tracking) :
               \E i \in 1..Len(docs) :
                 TrackingEntry(docs[i]) = projection[id].tracking[k]
          /\ Len(projection[id].tracking) <= Cardinality(StatusDocs(id))

\* a save was interrupted between its two steps: the log is ahead
C6_Witness_LogAhead ==
  /\ procs = {}
  /\ nFailures > 0
  /\ \E id \in Ids :
       /\ projection[id] # NoDoc
       /\ Len(projection[id].tracking) < Cardinality(StatusDocs(id))

\* C7: when the commands run one at a time and every save completes, after
\* each command the projection record of a shipment has the status, kind,
\* related-shipment id and tracking length of the aggregate rebuilt from
\* that shipment's events.
C7_ProjectionEqualsReplay ==
  (clean /\ procs = {}) =>
    \A id \in Ids :
      SelectDocs(eventStore, id) # << >> =>
        LET r == loadById(eventStore, id, clock)
        IN  /\ r.ok
            /\ projection[id] # NoDoc
            /\ projection[id].status = r.shipment.status
            /\ projection[id].type = r.shipment.type
            /\ projection[id].relatedShipmentId = r.shipment.relatedShipmentId
            /\ Len(projection[id].tracking) = Len(r.shipment.tracking)

C7_Witness_ExchangeRanAlone ==
  /\ clean
  /\ procs = {}
  /\ nCommands = 2
  /\ projection[ShipmentId(1)] # NoDoc
  /\ projection[ShipmentId(1)].status = "EXCHANGE_PROCESSED"
  /\ projection[ShipmentId(2)] # NoDoc
  /\ projection[ShipmentId(2)].type = "EXCHANGE"

\* C8: when two commands load, mutate and save the same shipment at the same
\* time, the events of both end up in the log (each append stores its whole
\* buffer and the log never loses an event), and each upsert leaves the
\* writer's complete snapshot as the projection record, so the record in
\* the end is the snapshot of whoever upserted last, not a merge.
C8_BothEventsLoggedLastSnapshotWins ==
  [][/\ SubSeq(eventStore', 1, Len(eventStore)) = eventStore
     /\ \A pr \in procs :
          AppendStep(pr) =>
            \A k \in 1..Len(Saved(pr).events) :
              Saved(pr).events[k].eventId \in storedIds(eventStore')
     /\ \A pr \in procs, publishOk \in BOOLEAN :
          UpsertStep(pr, publishOk) =>
            projection'[Saved(pr).id] = toDocument(Saved(pr))]_vars

\* two executions both loaded s1 as PENDING and both saved MOVED_TO_PREPARED
C8_Witness_TwoWritersSameShipment ==
  /\ procs = {}
  /\ nFailures = 0
  /\ Cardinality({ i \in 1..Len(eventStore) :
                     /\ eventStore[i].shipmentId = ShipmentId(1)
                     /\ eventStore[i].eventType = "MOVED_TO_PREPARED" }) = 2
  /\ Len(projection[ShipmentId(1)].tracking) = 2

\* C9 (as stated): however often a payment-approved notification is
\* delivered and processed, its order has exactly one shipment made from
\* it: at most one creation event and one projection record.
C9_CreationFromNotificationIdempotent ==
  \A o \in Orders :
    /\ Cardinality({ i \in 1..Len(eventStore) :
                       /\ eventStore[i].eventType = "SHIPMENT_CREATED"
                       /\ eventStore[i].orderId = o
                       /\ eventStore[i].actor = "system" }) <= 1
    /\ Cardinality({ id \in Ids :
                       /\ projection[id] # NoDoc
                       /\ projection[id].orderId = o
                       /\ projection[id].tracking[1].actor = "system" }) <= 1

\* C10: a move-to-prepared command on a shipment that is no longer PENDING
\* is turned down as an ordinary error of the use case: no event is
\* appended, the projection is not changed, and the process keeps running
\* (the executions in flight go on, the command just ends as rejected).
C10_RepeatedPrepareRejected ==
  [][\A n \in 0..nextShipmentId :
       LET r == loadById(eventStore, ShipmentId(n), clock)
       IN  (/\ HttpCommand("prepare", ShipmentId(n), None)
            /\ r.ok
            /\ r.shipment.status # "PENDING") =>
             /\ eventStore' = eventStore
             /\ projection' = projection
             /\ procs' = procs
             /\ outcome' = [kind |-> "prepare", sid |-> ShipmentId(n),
                            result |-> "rejected"]]_vars

C10_Witness_PrepareOnPreparedRejected ==
  /\ outcome = [kind |-> "prepare", sid |-> ShipmentId(1), result |-> "rejected"]
  /\ projection[ShipmentId(1)] # NoDoc
  /\ projection[ShipmentId(1)].status = "PREPARED"
  /\ Len(SelectDocs(eventStore, ShipmentId(1))) = 2

\* C11: a message whose processing fails on every delivery is requeued at
\* most maxRetries times and is then rejected without requeue: after
\* maxRetries failed deliveries of a message published without a retry
\* count, it is not back in the queue.
C11_FailingMessageRequeuedAtMostMaxRetries ==
  \A o \in Orders :
    (msgs[o].retryCount = 0 /\ nFailures = nCommands /\ nFailures > maxRetries)
      => msgs[o].state = "dead"

\* C12: a message whose processing was rejected by the validation of the
\* message or by a guard of the use case is not requeued.
C12_RejectedMessageNotRequeued ==
  outcome.kind \in {"validation", "rejected"} => outcome.result # "queued"

\* C13: when exchange initiation on shipment S1 completes, S1 is
\* EXCHANGE_PROCESSED and linked to the new shipment S2, and S2 exists, is
\* of kind EXCHANGE, is PENDING and is linked to S1, in the aggregates the
\* use case returns and in S2's projection record, and, when no other
\* execution ran meanwhile, also in S1's record and in the replay of both.
C13_ExchangeLinksBothShipments ==
  [][\A pr \in procs, publishOk \in BOOLEAN :
       (pr.kind = "initiateExchange" /\ pr.pc = "upsert2"
          /\ UpsertStep(pr, publishOk)) =>
         LET s1 == pr.sid
             s2 == pr.shipment2.id
             r1 == loadById(eventStore', s1, clock')
             r2 == loadById(eventStore', s2, clock')
         IN  /\ outcome'.result = "ok"
             /\ s2 # s1
             /\ pr.shipment.status = "EXCHANGE_PROCESSED"
             /\ pr.shipment.relatedShipmentId = s2
             /\ pr.shipment2.status = "PENDING"
             /\ pr.shipment2.type = "EXCHANGE"
             /\ pr.shipment2.relatedShipmentId = s1
             /\ projection'[s2] # NoDoc
             /\ projection'[s2].status = "PENDING"
             /\ projection'[s2].type = "EXCHANGE"
             /\ projection'[s2].relatedShipmentId = s1
             /\ clean' =>
                  /\ r2.ok
                  /\ r2.shipment.status = "PENDING"
                  /\ r2.shipment.type = "EXCHANGE"
                  /\ r2.shipment.relatedShipmentId = s1
                  /\ r1.ok
                  /\ r1.shipment.status = "EXCHANGE_PROCESSED"
                  /\ r1.shipment.relatedShipmentId = s2
                  /\ projection'[s1].status = "EXCHANGE_PROCESSED"
                  /\ projection'[s1].relatedShipmentId = s2]_vars

\* an exchange on s1 has completed
C13_Witness_ExchangeCompleted ==
  /\ procs = {}
  /\ clean
  /\ outcome.result = "ok"
  /\ projection[ShipmentId(1)].status = "EXCHANGE_PROCESSED"
  /\ projection[ShipmentId(1)].relatedShipmentId = ShipmentId(2)
  /\ projection[ShipmentId(2)] # NoDoc
  /\ projection[ShipmentId(2)].type = "EXCHANGE"

\* C14: initiating an exchange emits no return-initiated event for the
\* original shipment, also when the original is DELIVERED: every event an
\* exchange execution appends to the log is an event of the exchange path.
C14_ExchangeAppendsOnlyExchangeEvents ==
  [][\A pr \in procs :
       (pr.kind = "initiateExchange" /\ AppendStep(pr)) =>
         \A i \in (Len(eventStore) + 1)..Len(eventStore') :
           eventStore'[i].eventType \in
             {"EXCHANGE_INITIATED", "EXCHANGE_COMPLETED"}]_vars

\* C15: moveToPrepared, moveToInTransit and moveToDelivered succeed exactly
\* from PENDING, PREPARED and IN_TRANSIT respectively and then set the
\* target status; a rejected move leaves the whole aggregate (status,
\* tracking history, event buffer) as it was.
C15_MovesOnlyFromTheirSource ==
  [][\A kind \in {"prepare", "transit", "deliver"} :
       DomainOp(kind) =>
         LET from == CASE kind = "prepare" -> "PENDING"
                       [] kind = "transit" -> "PREPARED"
                       [] OTHER            -> "IN_TRANSIT"
             to == CASE kind = "prepare" -> "PREPARED"
                     [] kind = "transit" -> "IN_TRANSIT"
                     [] OTHER            -> "DELIVERED"
         IN  /\ last'.ok <=> (agg.status = from)
             /\ last'.ok => agg'.status = to
             /\ ~last'.ok => agg' = agg]_vars

\* moveToDelivered was called on a PREPARED shipment and was rejected
C15_Witness_DeliverOnPreparedRejected ==
  /\ last.op = "deliver"
  /\ ~last.ok
  /\ last.before = "PREPARED"
  /\ agg.status = "PREPARED"
  /\ Len(agg.tracking) = 2
  /\ Len(agg.events) = 2

\* C16: once the status of a shipment is CANCELLED, RETURNED or
\* EXCHANGE_PROCESSED, every domain operation (moveToPrepared,
\* moveToInTransit, moveToDelivered, cancel, initiateReturn, completeReturn,
\* initiateExchange) is rejected and leaves the aggregate as it was, so the
\* status never changes again.
C16_TerminalStatusesAreFinal ==
  [][agg.status \in {"CANCELLED", "RETURNED", "EXCHANGE_PROCESSED"} =>
       /\ agg'.status = agg.status
       /\ \A kind \in Kinds :
            DomainOp(kind) => (~last'.ok /\ agg' = agg)]_vars

\* initiateReturn was called on an EXCHANGE_PROCESSED shipment and rejected
C16_Witness_OperationOnExchangeProcessedRejected ==
  /\ last.op = "initiateReturn"
  /\ ~last.ok
  /\ last.before = "EXCHANGE_PROCESSED"
  /\ agg.status = "EXCHANGE_PROCESSED"

\* the events of a buffer that change the status
StatusChanging(events) == SelectSeq(events, LAMBDA ev : Truthy(ev.newStatus))

\* C17: for every aggregate, after any sequence of accepted and rejected
\* domain operations, the statuses of its tracking history are, in order,
\* the new statuses of the status-changing events produced for it, and its
\* current status is one of the eight status values and is the last of them.
C17_TrackingMirrorsStatusEvents ==
  LET evs == StatusChanging(agg.events)
  IN  /\ Len(agg.tracking) = Len(evs)
      /\ \A i \in 1..Len(evs) : agg.tracking[i].status = evs[i].newStatus
      /\ agg.status \in Statuses
      /\ Len(evs) >= 1
      /\ agg.status = evs[Len(evs)].newStatus

\* three status changes so far, and the last call was rejected
C17_Witness_ThreeEntriesAfterRejectedCall ==
  /\ Len(agg.tracking) = 3
  /\ Len(agg.events) = 3
  /\ last.op \in Kinds
  /\ ~last.ok

\* C18: loadById on an id that has no stored event fails with not-found and
\* hands out no aggregate, and fromEvents on an empty list of events fails.
C18_NothingLoadedFromNoEvents ==
  /\ \A id \in Ids \cup {UnknownId} :
       getEventsByShipmentId(eventStore, id, clock) = << >> =>
         LET r == loadById(eventStore, id, clock)
         IN  ~r.ok /\ r.error = "notfound" /\ r.shipment = NoShipment
  /\ ~fromEvents(<< >>).ok

\* a command on an id without events ended as not found
C18_Witness_CommandOnUnknownIdNotFound ==
  /\ outcome.result = "notfound"
  /\ outcome.sid = UnknownId
  /\ getEventsByShipmentId(eventStore, UnknownId, clock) = << >>

\* C19: validateConsistency(id) never modifies the event log or the
\* projection, and answers true exactly when the projection record it finds
\* exists and has the status of the aggregate it replayed; it answers
\* false otherwise, also when a store call throws or the id has no events.
\* When nothing else ran meanwhile, the answer is that of the comparison
\* of the stored record with the replay of the stored log.
C19_ValidateConsistencyReadsOnly ==
  [][/\ \A n \in 0..1, storeOk \in BOOLEAN :
          ValidateConsistencyLoad(ShipmentId(n), storeOk) =>
            /\ eventStore' = eventStore /\ projection' = projection
            /\ (~storeOk \/ ~loadById(eventStore, ShipmentId(n), clock).ok) =>
                 outcome'.result = "false"
     /\ \A pr \in procs, storeOk \in BOOLEAN :
          ValidateConsistencyFind(pr, storeOk) =>
            /\ eventStore' = eventStore /\ projection' = projection
            /\ outcome'.result \in {"true", "false"}
            /\ outcome'.result = "true" <=>
                 /\ storeOk
                 /\ projection[pr.sid] # NoDoc
                 /\ projection[pr.sid].status = pr.shipment.status
            /\ clean' =>
                 (outcome'.result = "true" <=>
                    validateConsistency(eventStore, projection, pr.sid, clock))]_vars

\* validateConsistency answered false on a stale record: the record of s1
\* said PREPARED while the log says IN_TRANSIT
C19_Witness_StaleRecordReported ==
  /\ outcome.kind = "validateConsistency"
  /\ outcome.sid = ShipmentId(1)
  /\ outcome.result = "false"
  /\ outcome.found = "PREPARED"
  /\ clean
  /\ loadById(eventStore, ShipmentId(1), clock).shipment.status = "IN_TRANSIT"

\* C20: for a shipment that has events, once rebuildProjection(id) has
\* completed with no other writer of the shipment, the status of its
\* projection record is the status replayed from its log, so that
\* validateConsistency answers true, whatever the projection held before
\* (no record or a stale one).
C20_RebuildMakesProjectionConsistent ==
  [][\A pr \in procs :
       RebuildProjectionSave(pr, TRUE) =>
         LET r == loadById(eventStore', pr.sid, clock')
         IN  /\ outcome'.result = "ok"
             /\ r.ok
             /\ projection'[pr.sid] # NoDoc
             /\ projection'[pr.sid].status = r.shipment.status
             /\ projection'[pr.sid] = toDocument(r.shipment)
             /\ validateConsistency(eventStore', projection', pr.sid, clock')]_vars

\* a rebuild of s1 replaced a stale record (PENDING) by the replayed state
C20_Witness_StaleRecordRebuilt ==
  /\ outcome.kind = "rebuildProjection"
  /\ outcome.sid = ShipmentId(1)
  /\ outcome.result = "ok"
  /\ outcome.found = "PENDING"
  /\ projection[ShipmentId(1)].status = "DELIVERED"
  /\ procs = {}

\* C21: the event log is append-only: whatever calls of saveEvents run,
\* with ids stored already or not, one after another or two at a time, every
\* stored event stays where it is and as it was written, the log never
\* shrinks, and a later document with a stored id replaces nothing.
C21_EventLogIsAppendOnly ==
  [][/\ Len(eventStore') >= Len(eventStore)
     /\ \A i \in 1..Len(eventStore) : eventStore'[i] = eventStore[i]
     /\ \A i \in (Len(eventStore) + 1)..Len(eventStore') :
          eventStore'[i].eventId \notin storedIds(eventStore)]_vars

\* a call in flight has had a document refused (its id was stored already)
\* and has more documents to insert
C21_Witness_RetryWithNewEvent ==
  /\ \E call \in procs : call.refused /\ call.documents # << >>
  /\ Len(eventStore) >= 2
  /\ nCommands = 1

\* C22: when the publish of a financially critical notification (delivery
\* confirmation, cancellation, return completion) fails, the command does
\* not end as a success: the failure reaches its caller.
C22_CriticalPublishFailureEscalated ==
  [][\A pr \in procs :
       (pr.kind \in {"deliver", "cancel", "completeReturn"}
          /\ UpsertStep(pr, FALSE)) =>
         outcome'.result # "ok"]_vars

\* C23: when the publish of a state-changed notification fails after the
\* save, the command still ends as a success, the events it appended stay
\* in the log, the projection record is the one it upserted, nothing is
\* published and the command is not run again.
C23_StateChangedPublishFailureSwallowed ==
  [][\A pr \in procs :
       (pr.kind \in {"prepare", "transit"} /\ UpsertStep(pr, FALSE)) =>
         /\ outcome'.result = "ok"
         /\ eventStore' = eventStore
         /\ \A k \in 1..Len(pr.shipment.events) :
              pr.shipment.events[k].eventId \in storedIds(eventStore')
         /\ projection'[pr.sid] = toDocument(pr.shipment)
         /\ published' = published
         /\ procs' = procs \ {pr}
         /\ msgs' = msgs]_vars

\* move-to-prepared of s1 ended as a success although its publish failed
C23_Witness_PreparedSavedNotPublished ==
  /\ procs = {}
  /\ nCommands = 1
  /\ nFailures = 1
  /\ outcome.result = "ok"
  /\ projection[ShipmentId(1)] # NoDoc
  /\ projection[ShipmentId(1)].status = "PREPARED"
  /\ projection[ShipmentId(2)] = NoDoc
  /\ published = {}

\* the event types that a notification with a given routing key describes
NotifiedEventTypes(key) ==
  CASE key = "shipping.created"            -> {"SHIPMENT_CREATED"}
    [] key = "shipping.state.changed"      -> {"MOVED_TO_PREPARED", "MOVED_TO_IN_TRANSIT"}
    [] key = "shipping.delivered"          -> {"MOVED_TO_DELIVERED"}
    [] key = "shipping.cancelled"          -> {"SHIPMENT_CANCELLED"}
    [] key = "shipping.return.initiated"   -> {"RETURN_INITIATED"}
    [] key = "shipping.return.completed"   -> {"RETURN_COMPLETED"}
    [] key = "shipping.exchange.initiated" -> {"EXCHANGE_INITIATED"}
    [] key = "shipping.exchange.completed" -> {"EXCHANGE_COMPLETED"}
    [] OTHER -> {}

C26_DomainOperationsKeepCreationData ==
  [][\A kind \in Kinds :
       DomainOp(kind) =>
         /\ agg'.articles = agg.articles
         /\ agg'.customerInfo = agg.customerInfo
         /\ agg'.id = agg.id
         /\ agg'.orderId = agg.orderId]_vars

\* after five accepted operations the aggregate still has the data it was
\* created with
C26_Witness_CreationDataAfterFullPath ==
  /\ Len(agg.events) = 6
  /\ last.ok
  /\ agg.id = ShipmentId(1)
  /\ agg.orderId = "o1"
  /\ agg.customerInfo = "cust1"
  /\ agg.articles = "items1"

\* the note each operation is called with
PassedDescription(kind) ==
  CASE kind = "prepare"          -> "d_prepared"
    [] kind = "transit"          -> "d_in_transit"
    [] kind = "deliver"          -> "d_delivered"
    [] kind = "cancel"           -> "d_cancelled"
    [] kind = "initiateReturn"   -> "d_return_initiated"
    [] kind = "completeReturn"   -> "d_return_completed"
    [] OTHER                     -> "d_exchange"

\* what C27 says of one call of operation kind
OneEventBuffered(kind) ==
  IF last'.ok
    THEN /\ Len(agg'.events) = Len(agg.events) + 1
         /\ SubSeq(agg'.events, 1, Len(agg.events)) = agg.events
         /\ LET ev == agg'.events[Len(agg'.events)]
            IN  /\ ev.previousStatus = agg.status
                /\ ev.newStatus = agg'.status
                /\ ev.actor = "user"
                /\ ev.description = PassedDescription(kind)
    ELSE agg'.events = agg.events

\* C27: every accepted domain operation buffers exactly one new event whose
\* previous status is the status before the operation, whose new status is
\* the status after it and whose acting party and note are the ones passed
\* to the operation; a rejected operation buffers no event.
C27_OneEventPerAcceptedOperation ==
  [][\A kind \in Kinds : DomainOp(kind) => OneEventBuffered(kind)]_vars

\* C28: exchange initiation is accepted if and only if the status of the
\* original shipment is DELIVERED or RETURNING: a loaded shipment in one of
\* these is not turned down, neither at once nor after its first save, and
\* from any other status the command is rejected at once with the log, the
\* projection and the shipment ids as they were.
C28_ExchangeGatedByStatusOnly ==
  [][/\ \A n \in 0..nextShipmentId, a \in {None, "items2"} :
          LET r == loadById(eventStore, ShipmentId(n), clock)
          IN  (r.ok /\ HttpCommandLoaded("initiateExchange", ShipmentId(n), a, r)) =>
                IF r.shipment.status \in {"DELIVERED", "RETURNING"}
                  THEN procs' # procs
                  ELSE /\ outcome'.result = "rejected"
                       /\ eventStore' = eventStore
                       /\ projection' = projection
                       /\ nextShipmentId' = nextShipmentId
                       /\ procs' = procs
     /\ \A pr \in procs :
          (pr.pc = "upsertR" /\ UpsertStep(pr, TRUE)) =>
            \E q \in procs' : q.sid = pr.sid /\ q.pc = "append"]_vars

\* C29: isTerminal is true for a status exactly when that status has no
\* legal outbound transition, that is, exactly when canTransitionTo answers
\* false for every target status.
C29_TerminalIffNoOutboundTransition ==
  isTerminal(query.from) <=>
    \A target \in Statuses : ~canTransitionTo(query.from, target)

\* the statuses set by the stored events of shipment id, in replay order
\* (events that carry no status left out)
StoredPath(id) ==
  LET events == getEventsByShipmentId(eventStore, id, clock)
      carries(e) == Truthy(e.newStatus)
  IN  [i \in 1..Len(SelectSeq(events, carries)) |->
         SelectSeq(events, carries)[i].newStatus]

\* C30: in every reachable state, whatever the interleaving of concurrent
\* commands on one shipment, the stored events of each shipment in replay
\* order form a legal path of the transition table: the first event that
\* carries a status sets PENDING, and the new status of each later one is a
\* legal target of the new status of the one before it.
C30_StoredEventsFormLegalPath ==
  \A id \in Ids :
    LET path == StoredPath(id)
    IN  /\ Len(path) > 0 => path[1] = "PENDING"
        /\ \A i \in 2..Len(path) : canTransitionTo(path[i - 1], path[i])

\* shipment id has a creation event in the log (SHIPMENT_CREATED, or the
\* EXCHANGE_COMPLETED event createForExchange buffers)
HasCreationEvent(id) ==
  \E i \in 1..Len(eventStore) :
    /\ eventStore[i].shipmentId = id
    /\ eventStore[i].eventType \in {"SHIPMENT_CREATED", "EXCHANGE_COMPLETED"}

\* C31: in every persisted state with no execution in flight, also after a
\* failure or a crash between the two saves of an exchange, a stored
\* shipment (its events, its projection record) that names a related
\* shipment names one that has a creation event in the log.
C31_RelatedShipmentExists ==
  procs = {} =>
    /\ \A i \in 1..Len(eventStore) :
         Truthy(eventStore[i].relatedShipmentId) =>
           HasCreationEvent(eventStore[i].relatedShipmentId)
    /\ \A id \in Ids :
         (projection[id] # NoDoc /\ Truthy(projection[id].relatedShipmentId)) =>
           HasCreationEvent(projection[id].relatedShipmentId)

\* C32: save clears the buffer of the aggregate only when both the append
\* and the projection upsert succeeded; when either throws the buffer stays
\* as it was; and save called again on the same aggregate meets no error of
\* the log for the events already stored, stores no event twice, and ends
\* with the projection upserted and the whole buffer in the log.
C32_SaveClearsOnlyAfterBothSteps ==
  [][/\ agg'.events # agg.events =>
          /\ agg' = clearEvents(agg)
          /\ outcome'.result = "ok"
          /\ \A k \in 1..Len(agg.events) :
               Cardinality({ i \in 1..Len(eventStore') :
                               eventStore'[i].eventId = agg.events[k].eventId }) = 1
          /\ projection'[agg.id] = toDocument(agg)
     /\ \A call \in procs :
          /\ \A k \in 0..Len(agg.events) : SaveEventsThrows(call, k) => agg' = agg
          /\ \A applied \in BOOLEAN : ProjectionSaveThrows(call, applied) => agg' = agg
          /\ SaveEventsReturns(call) => procs' # {}
          /\ ProjectionSaveReturns(call) => agg'.events = << >>
     /\ \A i \in 1..Len(eventStore'), j \in 1..Len(eventStore') :
          eventStore'[i].eventId = eventStore'[j].eventId => i = j]_vars

\* the third call of save on an aggregate with two buffered events returned;
\* the two calls before it threw at the projection, after their saveEvents
\* had returned
C32_Witness_ThirdSaveSucceeds ==
  /\ outcome = [kind |-> "save", sid |-> ShipmentId(1), result |-> "ok"]
  /\ nCommands = 3
  /\ nFailures = 2
  /\ last.n = 3
  /\ agg.events = << >>
  /\ projection[ShipmentId(1)] = toDocument(agg)
  /\ projection[ShipmentId(1)].status = "IN_TRANSIT"
  /\ Len(SelectDocs(eventStore, ShipmentId(1))) = 3

\* C33: an aggregate returned by loadById has an empty buffer, so loadById,
\* one accepted domain operation and save append exactly one event of that
\* shipment to the log: the one the operation buffered, and none of the
\* history.
C33_LoadedAggregateAppendsOneEvent ==
  [][/\ \A n \in 0..nextShipmentId :
          LET r == loadById(eventStore, ShipmentId(n), clock)
          IN  r.ok => r.shipment.events = << >>
     /\ \A pr \in procs :
          (pr.kind \notin {"create", "initiateExchange"} /\ AppendStep(pr)) =>
            /\ Len(pr.shipment.events) = 1
            /\ eventStore' =
                 Append(eventStore, toPrimitives(pr.shipment.events[1], pr.sid))
            /\ Len(SelectDocs(eventStore', pr.sid)) =
                 Len(SelectDocs(eventStore, pr.sid)) + 1]_vars

\* a complete-return command on a shipment with five stored events ran
\* alone to its end: the log holds six events of it
C33_Witness_SixthEventAppended ==
  /\ procs = {}
  /\ nCommands = 1
  /\ nFailures = 0
  /\ outcome.result = "ok"
  /\ Len(SelectDocs(eventStore, ShipmentId(1))) = 6
  /\ Len(eventStore) = 6
  /\ projection[ShipmentId(1)].status = "RETURNED"

\* C34: a consumed message is acknowledged only after processMessage
\* completed without error; for payment-approved that is after the creation
\* event was appended and the projection upserted.  A delivery whose
\* processing failed is not acknowledged: it is negatively acknowledged,
\* with requeue or without.
C34_AckOnlyAfterProcessing ==
  [][\A o \in Orders :
       /\ (msgs'[o].state = "acked" /\ msgs[o].state # "acked") =>
            \E pr \in procs :
              /\ pr.source = "msg" /\ pr.order = o
              /\ \E publishOk \in BOOLEAN : UpsertStep(pr, publishOk)
              /\ HasCreationEvent(pr.sid)
              /\ projection'[pr.sid] = toDocument(pr.shipment)
              /\ outcome'.result = "ok"
       /\ \A pr \in procs :
            (pr.source = "msg" /\ pr.order = o /\ (AppendFails(pr) \/ UpsertFails(pr))) =>
              /\ msgs[o].state = "unacked"
              /\ msgs'[o].state \in {"queued", "dead"}]_vars

\* the payment-approved message was consumed into empty stores and
\* acknowledged; the shipment made from it is in the log and the projection
C34_Witness_AckedAfterCreation ==
  /\ msgs["o1"].state = "acked"
  /\ procs = {}
  /\ nCommands = 1
  /\ nFailures = 0
  /\ Len(eventStore) = 1
  /\ eventStore[1].actor = "system"
  /\ projection[ShipmentId(1)].status = "PENDING"

\* the time at which the event with id eid was stored as produced
StoredTimestamp(eid) ==
  (CHOOSE doc \in {eventStore[i] : i \in 1..Len(eventStore)} :
     doc.eventId = eid).timestamp

\* the events come oldest first
Chronological(events) ==
  \A i \in 1..Len(events), j \in 1..Len(events) :
    i < j => StoredTimestamp(events[i].eventId) <= StoredTimestamp(events[j].eventId)

\* C35: the read by shipment id returns every stored event of that
\* shipment and no event of another one, oldest first, which is the order
\* in which the events were produced (the creation event first); the reads
\* by order id, by event type and by time range return their events oldest
\* first as well.
C35_ReadsAreChronological ==
  /\ outcome.kind = "getEventsByShipmentId" =>
       /\ {outcome.result[i].eventId : i \in 1..Len(outcome.result)} =
            {eventStore[i].eventId :
               i \in {k \in 1..Len(eventStore) :
                        eventStore[k].shipmentId = outcome.sid}}
       /\ \A i \in 1..Len(outcome.result), j \in 1..Len(outcome.result) :
            i < j => outcome.result[i].eventId < outcome.result[j].eventId
       /\ Len(outcome.result) > 0 =>
            outcome.result[1].eventType \in {"SHIPMENT_CREATED", "EXCHANGE_COMPLETED"}
  /\ outcome.kind \in {"getEventsByShipmentId", "getEventsByOrderId",
                       "getEventsByDateRange", "getEventsByType"} =>
       Chronological(outcome.result)

\* C36: createForExchange returns a new aggregate of kind EXCHANGE in
\* status PENDING, linked to the original shipment id, with exactly one
\* buffered event, the creation event, and that event carries the customer
\* snapshot and the line items that were passed to the factory.
C36_CreateForExchangeCarriesItsArguments ==
  (last = NoOp /\ agg.type = "EXCHANGE") =>
    /\ agg.status = "PENDING"
    /\ agg.relatedShipmentId = UnknownId
    /\ Len(agg.events) = 1
    /\ agg.events[1].eventType = "EXCHANGE_COMPLETED"
    /\ agg.events[1].newStatus = "PENDING"
    /\ agg.events[1].relatedShipmentId = UnknownId
    /\ agg.events[1].customerInfo = "cust1"
    /\ agg.events[1].articles = "items1"

\* the status the documentation gives the original shipment for each
\* reported condition of the returned product
DocumentedOriginalStatus(productCondition) ==
  CASE productCondition = "damaged"   -> "CANCELLED"
    [] productCondition = "defective" -> "RETURNED"
    [] OTHER                          -> "EXCHANGE_PROCESSED"

\* C37: completing an exchange sets the status of the original shipment
\* according to the reported condition of the product: EXCHANGE_PROCESSED
\* when good, CANCELLED when damaged, RETURNED when defective.  Stated of
\* the stored original shipment at the step in which the use case returns.
C37_OriginalStatusFollowsCondition ==
  [][/\ \A n \in 0..nextShipmentId, m \in 0..nextShipmentId :
          \A c \in ProductConditions, publishOk \in BOOLEAN :
            (/\ CompleteExchangeCall(ShipmentId(n), ShipmentId(m), c, publishOk)
             /\ procs' = procs
             /\ outcome'.result = "ok") =>
              loadById(eventStore', ShipmentId(n), clock').shipment.status =
                DocumentedOriginalStatus(c)
     /\ \A pr \in procs, publishOk \in BOOLEAN :
          (pr.kind = "completeExchange" /\ UpsertStep(pr, publishOk)) =>
            loadById(eventStore', pr.sid, clock').shipment.status =
              DocumentedOriginalStatus(pr.productCondition)]_vars

\* C38: fromEvents fails whenever the first event of the list it is given
\* lacks the customer snapshot or the line items, and hands out no
\* aggregate, not even a partly built one, in that case.
C38_FromEventsNeedsCreationPayload ==
  (/\ outcome.kind = "fromEvents"
   /\ Len(outcome.sid) > 0
   /\ \/ ~Truthy(outcome.sid[1].customerInfo)
      \/ ~Truthy(outcome.sid[1].articles)) =>
    /\ outcome.result = FALSE
    /\ agg = NoShipment

\* fromEvents was given the stored events of s1 without the creation event:
\* the first of them, MOVED_TO_PREPARED, has neither field, and nothing
\* was returned
C38_Witness_HistoryWithoutCreationEvent ==
  /\ outcome.kind = "fromEvents"
  /\ Len(outcome.sid) = 4
  /\ outcome.sid[1].eventType = "MOVED_TO_PREPARED"
  /\ outcome.sid[1].customerInfo = None
  /\ outcome.result = FALSE
  /\ agg = NoShipment

\* C39: appending a batch of which some event ids are stored already and
\* others are new stores every new event of the batch, leaves the stored
\* ones (and the rest of the log) as they are, and reports success to the
\* caller.
C39_PartlyStoredBatchAppended ==
  [][\A call \in procs :
       SaveEventsReturns(call) =>
         LET new == SelectSeq(agg.events,
                              LAMBDA e : e.eventId \notin storedIds(eventStore))
         IN  /\ eventStore' =
                  eventStore \o [i \in 1..Len(new) |-> toPrimitives(new[i], agg.id)]
             /\ \A k \in 1..Len(agg.events) :
                  agg.events[k].eventId \in storedIds(eventStore')
             /\ last'.ok
             /\ procs' = {[call EXCEPT !.pc = "projection"]}
             /\ outcome' = outcome]_vars

\* saveEvents returned from a batch of two events, one of them stored by an
\* earlier call that threw, the other new and now stored
C39_Witness_OneStoredOneNew ==
  /\ last.ok
  /\ last.before = 1
  /\ last.after = 1
  /\ Len(agg.events) = 2
  /\ \E call \in procs : call.pc = "projection"
  /\ \A k \in 1..2 : agg.events[k].eventId \in storedIds(eventStore)

\* the aggregates one accepted domain operation makes of shipment
AcceptedSteps(shipment) ==
  LET eid == Len(shipment.events) + 1
      result(kind) ==
        IF kind = "initiateExchange"
          THEN initiateExchange(shipment, eid, eid, ShipmentId(2), "user", "d_exchange")
          ELSE domainOperation(kind, shipment, eid, eid, "user")
  IN  { result(kind).shipment : kind \in { k \in Kinds : result(k).ok } }

\* the aggregates at most n accepted domain operations make of shipment
RECURSIVE AcceptedPaths(_, _)
AcceptedPaths(shipment, n) ==
  IF n = 0 THEN {shipment}
  ELSE {shipment} \cup
       UNION { AcceptedPaths(next, n - 1) : next \in AcceptedSteps(shipment) }

\* C40: no status other than CANCELLED, RETURNED and EXCHANGE_PROCESSED is
\* a dead end: an aggregate in PENDING, PREPARED, IN_TRANSIT, DELIVERED or
\* RETURNING has a domain operation that is accepted, and from a new
\* aggregate (PENDING) each of CANCELLED, RETURNED and EXCHANGE_PROCESSED is
\* reached by some sequence of accepted operations.
C40_NoDeadEndBeforeTerminal ==
  /\ agg.status \in {"PENDING", "PREPARED", "IN_TRANSIT", "DELIVERED", "RETURNING"} =>
       AcceptedSteps(agg) # {}
  /\ last = NoOp =>
       {"CANCELLED", "RETURNED", "EXCHANGE_PROCESSED"} \subseteq
         { s.status : s \in AcceptedPaths(agg, MaxAggOps - 1) }

\* five operations were called on a new aggregate, all of them accepted,
\* and brought it to RETURNED
C40_Witness_ReturnedByAcceptedOperations ==
  /\ last.n = 5
  /\ Len(agg.events) = 6
  /\ last.op = "completeReturn"
  /\ last.ok
  /\ agg.status = "RETURNED"
  /\ agg.type = "NORMAL"

====
